---------------------------- MODULE Spec2Model ----------------------------
(***************************************************************************)
(* Request/response and event-dispatch engine of vscode_sockpuppet:        *)
(* VSCodeClient (client.py), EventEmitter (events/core.py) and the webview *)
(* fan-out registry (webview.py), together with a minimal extension host   *)
(* (tests/test_webview_dispatch.py) at the other end of the socket.        *)
(*                                                                         *)
(* Threads advance one step at a time.  A step is a maximal piece of code  *)
(* that runs without blocking I/O and without leaving a lock: a section    *)
(* under `with self._lock`, one sendall, one recv, or the statements       *)
(* between two of those.  The Unix-socket branch (os.name != "nt") is the  *)
(* one modelled; the named-pipe branch differs only in the call names.     *)
(***************************************************************************)
EXTENDS Integers, Sequences, FiniteSets, TLC

(* ------------------------------ bounds --------------------------------- *)
\* operations the caller threads may start in one run
MaxOps == 4
\* event frames the host may push in one run
MaxEvents == 2
\* EventEmitter objects created in one run
MaxEmitters == 2

(* ------------------------------ universe ------------------------------- *)
Callers == {"t1", "t2"}
Routers == 1..2
NoThread == 0
\* the event name subscriptions are made on, and the webview kind
EvName == "E"
WvMsg == "webview.onDidReceiveMessage"
WvDispose == "webview.onDidDispose"
\* the event of a FileSystemWatcher with id w1, and the watcher's handler
WatchCreate == "watcher.w1.onCreate"
HandleCreate == "_handle_create"
Events == {EvName, WvMsg, WvDispose, WatchCreate}
\* user handlers: h1, h2 record their argument, hx raises
Recorders == {"h1", "h2"}
Raiser == "hx"
\* the shared dispatcher of webview.py (_global_handler)
GlobalHandler == "_global_handler"
\* the shared dispatcher of dispose events (_global_dispose_handler)
GlobalDisposeHandler == "_global_dispose_handler"
Handlers == Recorders \cup {Raiser, GlobalHandler, GlobalDisposeHandler}
\* WebviewPanel objects and the panel_id each was constructed with
Panels == {"P1", "P2"}
NoPanel == "None"
IdOf(p) == IF p = "P1" THEN "alpha" ELSE "beta"
\* ids carried by webview events: the panels' and one no panel has
PanelIds == {IdOf(p) : p \in Panels} \cup {"gamma"}
Payloads == {"d1", "d2"}
EmitterIds == 1..MaxEmitters
\* the constructor's argument and the environment variable: None / unset,
\* the empty string, a path
Args == {"None", "", "/arg"}
EnvValues == {"None", "", "/env"}
OsNames == {"nt", "posix"}
\* two clients of one process and their panels: A1 and B1 were created on
\* c1, A2 on c2; A1 and A2 carry the same id
Clients == {"c1", "c2"}
\* the threads that use one emitter: "f" fires, "o" registers and removes
EmThreads == {"f", "o"}
\* its handlers: "rec" and "late" only return; "adder" registers "late" on
\* the emitter, "remover" calls an unsubscribe closure (its own or that of
\* "rec"), "asker" calls has_listeners()
EmHandlers == {"rec", "adder", "remover", "asker", "late"}
FanPanels == {"A1", "B1", "A2"}
ClientOf(p) == IF p = "A2" THEN "c2" ELSE "c1"
FanId(p) == IF p = "B1" THEN "beta" ELSE "alpha"
FanIds == {FanId(p) : p \in FanPanels}
NoEmitter == 0

(* ------------------------------ wire ----------------------------------- *)
\* One JSON object of the protocol.  `type` is "event" for an event frame
\* and "none" when the key is absent; `hasError` says whether the key
\* "error" is present; `result` is "None" when the key is absent.
Data(id, message) == [id |-> id, message |-> message]
NoData == Data("", "")
Response(id, result) ==
    [type |-> "none", id |-> id, hasError |-> FALSE, error |-> "",
     result |-> result, event |-> "", data |-> NoData]
ErrorResponse(id, msg) ==
    [type |-> "none", id |-> id, hasError |-> TRUE, error |-> msg,
     result |-> "None", event |-> "", data |-> NoData]
EventFrame(e, d) ==
    [type |-> "event", id |-> 0, hasError |-> FALSE, error |-> "",
     result |-> "None", event |-> e, data |-> d]
\* The stream is a sequence of symbols: the text of one JSON object, or the
\* newline that ends a frame.
Body(f) == [nl |-> FALSE, json |-> f]
NL == [nl |-> TRUE, json |-> Response(0, "")]
\* json.dumps(x) + "\n"
Encode(f) == <<Body(f), NL>>

\* index of the first newline of s, 0 when there is none  ("\n" in buffer)
RECURSIVE FirstNL(_, _)
FirstNL(s, i) ==
    IF i > Len(s) THEN 0
    ELSE IF s[i].nl THEN i ELSE FirstNL(s, i + 1)
HasNL(s) == FirstNL(s, 1) # 0
\* buffer.split("\n", 1): the text before the first newline, and the rest
LineOf(s) == SubSeq(s, 1, FirstNL(s, 1) - 1)
RestOf(s) == SubSeq(s, FirstNL(s, 1) + 1, Len(s))
\* json.loads(line): one object's text decodes to the object; the empty
\* string and the text of two objects run together do not decode.
Decodes(line) == Len(line) = 1
Decode(line) == line[1].json

Request(id, method, e) == [id |-> id, method |-> method, event |-> e]
Outcome(kind, val) == [kind |-> kind, val |-> val]
NoOutcome == Outcome("none", "")

VARIABLES
    sock,        \* self.sock: "none" (None), "open", "dead" (never connected)
    request_id,  \* self._request_id
    buffer,      \* self._buffer
    emitters,    \* self._emitters: event name -> emitter object (0: absent)
    handlersOf,  \* emitter object -> its _handlers list
    hookEvent,   \* emitter object -> the event name its hooks closed over
    nEmitters,   \* emitter objects constructed so far
    running,     \* self._running
    eventThread, \* self._event_thread: NoThread (None) or the last thread started
    th,          \* caller threads: position and locals
    rt,          \* router threads: position and locals
    closures,    \* unsubscribe closures handed out: [em, h]
    c2h,         \* bytes written by the client, not yet read by the host
    h2c,         \* bytes written by the host, not yet read by the client
    peerClosed,  \* the host has closed its end
    segmented,   \* the transport may deliver a frame in pieces
    hostSubs,    \* host side: event names subscribed on this connection
    wrote,       \* history: every request frame written, in order
    received,    \* history: handler -> the arguments it was called with
    panels,      \* WebviewPanel objects: _disposed, _message_handlers, ...
    msgRegistry, \* _global_message_registry[client]: panel id -> panel
    msgHandlerRef, \* _global_message_handler_ref[client], or NoClosure
    panelClosures, \* unsubscribe functions on_did_receive_message returned
    wvCalls,     \* history: the calls of panel message handlers
    dispRegistry,   \* _global_dispose_registry[client]: panel id -> panel
    dispHandlerRef, \* _global_dispose_handler_ref[client], or NoClosure
    dispCalls,   \* history: the calls of panel dispose handlers
    hist,        \* history: counters the properties read
    arg,         \* the pipe_path argument of VSCodeClient(...), "None" for None
    environ,     \* os.environ.get("VSCODE_SOCKPUPPET_PIPE"), "None" when unset
    os_name,     \* os.name
    pipe_path,   \* self.pipe_path, "unset" before __init__ has run
    globalMessageRegistry,   \* _global_message_registry, all clients
    globalMessageHandlerRef, \* _global_message_handler_ref, all clients
    fanListeners, \* per client: the _global_handler closures its emitter holds
    fanPanels,   \* the panels of all clients
    fanCalls,    \* history: the handler calls of these panels
    emHandlers,  \* one EventEmitter seen alone: self._handlers
    emLock,      \* its self._lock: "free" or the thread that holds it
    emStack,     \* per thread, the frames of its calls into the emitter
    emHist,      \* history: fire()'s snapshots, the handler calls, closures
    watcher,     \* a FileSystemWatcher: _disposed, _on_create_handlers
    blocks,      \* per caller: the `with client.subscription(...)` it is in
    session      \* _session_listeners, the notifications under way, calls

vars == <<sock, request_id, buffer, emitters, handlersOf, hookEvent, nEmitters,
          running, eventThread, th, rt, closures, c2h, h2c, peerClosed,
          segmented, hostSubs, wrote, received, panels, msgRegistry,
          msgHandlerRef, panelClosures, wvCalls, dispRegistry, dispHandlerRef,
          dispCalls, hist, arg, environ, os_name, pipe_path,
          globalMessageRegistry, globalMessageHandlerRef, fanListeners,
          fanPanels, fanCalls, emHandlers, emLock, emStack, emHist,
          watcher, blocks, session>>


(* ------------------------------ threads -------------------------------- *)
\* A caller thread: pc is its position, k the positions to return to (the
\* call stack), the rest are the locals of the frames it is in.  `late`
\* marks a call of an unsubscribe closure that was called before; calling
\* holds the dispose handlers of dispose()'s snapshot not yet called.
IdleThread ==
    [pc |-> "idle", k |-> <<>>, op |-> "", e |-> "", h |-> "", em |-> NoEmitter,
     flag |-> FALSE, late |-> FALSE, method |-> "", rid |-> 0, chunk |-> <<>>,
     line |-> <<>>, out |-> NoOutcome, p |-> "", ph |-> "", calling |-> <<>>]
\* A router thread (_event_loop): frame is the event being dispatched,
\* fired the handlers of fire()'s snapshot, snap those not yet called;
\* inside _global_dispose_handler, panel is the panel found and calling the
\* dispose handlers of its snapshot not yet called.
OffRouter ==
    [pc |-> "off", chunk |-> <<>>, frame |-> Response(0, ""), fired |-> <<>>,
     snap |-> <<>>, panel |-> NoPanel, calling |-> <<>>]

\* the closure event() returns
Closure(em, h) == [em |-> em, h |-> h]
NoClosure == Closure(NoEmitter, "")
\* WebviewPanel.__init__ (webview.py 117-140)
NewPanel ==
    [disposed |-> FALSE, message_handlers |-> <<>>, subscription_active |-> FALSE,
     dispose_handlers |-> <<>>, dispose_subscription_active |-> FALSE]

\* an empty (or absent) registry dict
NoPanels == [i \in PanelIds |-> NoPanel]

NoHist ==
    [nops |-> 0, connected |-> FALSE, pushed |-> <<>>,
     up |-> 0, down |-> 0, firstHooks |-> 0, noHooks |-> 0,
     called |-> {}, recalled |-> FALSE, lateRemoved |-> FALSE,
     overlap |-> FALSE, allocated |-> <<>>, heard |-> <<>>,
     absentHook |-> FALSE, dispatched |-> 0, ignored |-> 0, returned |-> {},
     after |-> {}, stored |-> [p \in Panels |-> 0],
     lateCalls |-> 0, raised |-> {}, again |-> 0, dropped |-> {},
     notes |-> <<>>, closed |-> FALSE, garbled |-> 0,
     acks |-> <<>>, swallowed |-> 0,
     tracing |-> FALSE, recvd |-> <<>>, taken |-> <<>>,
     refused |-> 0, alls |-> 0, cleared |-> {}]

\* VSCodeClient.__init__ (25-63): the path of the pipe or socket
DefaultPath(os) ==
    IF os = "nt" THEN "\\\\.\\pipe\\vscode-sockpuppet"
    ELSE "tempdir/vscode-sockpuppet.sock"
PipePathEnvFirst(a, env, os) ==
    LET p == IF env = "None" THEN a ELSE env
    IN  IF p = "None" THEN DefaultPath(os) ELSE p
PipePath(a, env, os) ==
    LET p == IF a = "None" THEN env ELSE a
    IN  IF p = "None" THEN DefaultPath(os) ELSE p

\* a client constructed without argument where the variable is not set
CtorDone ==
    /\ arg = "None"
    /\ environ = "None"
    /\ os_name = "posix"
    /\ pipe_path = PipePath(arg, environ, os_name)

\* an empty (or absent) registry dict, and a panel after __init__
NoFanPanels == [i \in FanIds |-> NoPanel]
NewFanPanel == [disposed |-> FALSE, message_handlers |-> <<>>,
                subscription_active |-> FALSE]
\* no panel of any client has registered a handler
FanInit ==
    /\ globalMessageRegistry = [c \in Clients |-> NoFanPanels]
    /\ globalMessageHandlerRef = [c \in Clients |-> "None"]
    /\ fanListeners = [c \in Clients |-> <<>>]
    /\ fanPanels = [p \in FanPanels |-> NewFanPanel]
    /\ fanCalls = <<>>

\* a caller outside every `with client.subscription(...)` block
NoBlock == [state |-> "", e |-> "", h |-> "", before |-> <<>>, sent |-> 0]
\* the listeners of the session ("l1", "l2" record, "lx" raises) and the
\* threads that call _notify_session_listeners
Listeners == {"l1", "l2", "lx"}
Notifiers == {"router", "caller"}
\* the calls that add or remove a listener are bounded by MaxOps, the
\* notifications by MaxEvents
SessionOps == Len(session.added) + session.removes
NotNotifying == [id |-> 0, todo |-> <<>>]
\* no listener registered and no notification under way.  `added` has one
\* entry per add_session_listener call (scoped: made by the context
\* manager), `used` the calls whose remover has run, `by` the call whose
\* remover made the last removal (0: remove_session_listener), `snaps` the
\* list each notification copied, `calls` the listener calls made.
NoSession ==
    [listeners |-> <<>>, notifying |-> [n \in Notifiers |-> NotNotifying],
     added |-> <<>>, used |-> {}, removes |-> 0, by |-> 0, snaps |-> <<>>,
     calls |-> <<>>]
\* no FileSystemWatcher has been constructed
NoWatcher == [created |-> FALSE, disposed |-> FALSE,
              on_create_handlers |-> <<>>]
\* an emitter without handlers, no thread in it; no watcher
EmInit ==
    /\ emHandlers = <<>>
    /\ emLock = "free"
    /\ emStack = [t \in EmThreads |-> <<>>]
    /\ emHist = [snaps |-> <<>>, calls |-> <<>>, closures |-> {}]
    /\ watcher = NoWatcher
    /\ blocks = [t \in Callers |-> NoBlock]
    /\ session = NoSession

\* the fields __init__ sets (lines 46-55), the panels and the host
Fresh ==
    /\ sock = "none"
    /\ request_id = 0
    /\ buffer = <<>>
    /\ emitters = [e \in Events |-> NoEmitter]
    /\ handlersOf = [i \in EmitterIds |-> <<>>]
    /\ hookEvent = [i \in EmitterIds |-> ""]
    /\ nEmitters = 0
    /\ running = FALSE
    /\ eventThread = NoThread
    /\ rt = [r \in Routers |-> OffRouter]
    /\ closures = {}
    /\ c2h = <<>>
    /\ h2c = <<>>
    /\ peerClosed = FALSE
    /\ segmented \in BOOLEAN
    /\ hostSubs = {}
    /\ wrote = <<>>
    /\ received = [h \in Recorders |-> <<>>]
    /\ panels = [p \in Panels |-> NewPanel]
    /\ msgRegistry = NoPanels
    /\ msgHandlerRef = NoClosure
    /\ panelClosures = {}
    /\ wvCalls = <<>>
    /\ dispRegistry = NoPanels
    /\ dispHandlerRef = NoClosure
    /\ dispCalls = <<>>
    /\ hist = NoHist
    /\ FanInit
    /\ EmInit

Init ==
    /\ Fresh
    /\ th = [t \in Callers |-> IdleThread]
    /\ CtorDone

wvVars == <<panels, msgRegistry, msgHandlerRef, panelClosures, dispRegistry,
           dispHandlerRef>>
clientVars == <<sock, request_id, buffer, emitters, handlersOf, hookEvent,
                nEmitters, running, eventThread, closures, wvVars>>
emitterVars == <<emitters, handlersOf, hookEvent, nEmitters, closures, wvVars>>
delivered == <<received, wvCalls, dispCalls>>
hostVars == <<c2h, h2c, peerClosed, segmented, hostSubs>>
\* the constructor's inputs and result
ctorVars == <<arg, environ, os_name, pipe_path>>
\* the message registries of the process and the panels of its clients
fanVars == <<globalMessageRegistry, globalMessageHandlerRef, fanListeners,
             fanPanels, fanCalls>>
\* one emitter with its lock
emVars == <<emHandlers, emLock, emStack, emHist>>
\* what the threads of one connected client and its host leave alone
\* the objects built on the client
objVars == <<watcher, blocks, session>>
sideVars == <<ctorVars, fanVars, emVars, objVars>>

\* recv(4096) returns what has arrived: all of it, or on a transport that
\* segments, any non-empty prefix
ChunkSizes == IF segmented THEN 1..Len(h2c) ELSE {Len(h2c)}

\* list.remove(x): drops the first occurrence of x
RECURSIVE RemoveFirst(_, _)
RemoveFirst(s, x) ==
    IF s = <<>> THEN <<>>
    ELSE IF Head(s) = x THEN Tail(s)
    ELSE <<Head(s)>> \o RemoveFirst(Tail(s), x)
InSeq(x, s) == \E i \in 1..Len(s) : s[i] = x

Busy(t) == th[t].pc # "idle"
\* an operation starts on an idle thread (the run's operations are bounded)
CanStart(t) == th[t].pc = "idle" /\ hist.nops < MaxOps
Started ==
    [hist EXCEPT !.nops = @ + 1,
                 !.overlap = @ \/ \E u \in Callers : Busy(u)]
\* return from the current function: to the position on top of the stack,
\* or, from an operation's own frame, to idle
Return(loc) ==
    IF loc.k = <<>> THEN IdleThread
    ELSE [loc EXCEPT !.pc = Head(loc.k), !.k = Tail(loc.k)]
\* enter _send_request(method, {"event": e}), returning to position ret
EnterRequest(loc, method, ret) ==
    [loc EXCEPT !.pc = "req_check", !.k = <<ret>> \o @, !.method = method,
                !.rid = 0, !.chunk = <<>>, !.line = <<>>, !.out = NoOutcome]
\* leave _send_request with an outcome: a value returned or an error raised
LeaveRequest(loc, out) ==
    [loc EXCEPT !.pc = Head(loc.k), !.k = Tail(@), !.out = out]

\* One call of the session listeners (_notify_session_listeners, 410-418)
\* by the event loop or by disconnect(): the state and the payload
Note(state, e, d) == [state |-> state, event |-> e, data |-> d]
Notified(h, state, e, d) == [h EXCEPT !.notes = Append(@, Note(state, e, d))]

(* ------------------------- VSCodeClient.__init__ ---------------------- *)
\* VSCodeClient(arg) called by thread t (25-55): the path is resolved and
\* stored, the other fields get their first values
NewClient(t) ==
    /\ th[t].pc = "new"
    /\ pipe_path' = PipePath(arg, environ, os_name)
    /\ sock' = "none"
    /\ request_id' = 0
    /\ buffer' = <<>>
    /\ emitters' = [e \in Events |-> NoEmitter]
    /\ eventThread' = NoThread
    /\ running' = FALSE
    /\ th' = [th EXCEPT ![t].pc = "idle"]
    /\ UNCHANGED <<handlersOf, hookEvent, nEmitters, closures, wvVars, rt,
                   hostVars, wrote, delivered, hist, arg, environ, os_name,
                   fanVars, emVars, objVars>>

(* ------------------------- VSCodeClient.connect ------------------------ *)
\* connect(): the socket object is stored before it is connected, so a
\* failed connect leaves self.sock set ("dead") and raises ConnectionError.
Connect(t) ==
    /\ CanStart(t)
    /\ sock = "none"
    /\ ~hist.connected
    /\ \E ok \in BOOLEAN :
         /\ sock' = IF ok THEN "open" ELSE "dead"
         /\ UNCHANGED th
    /\ hist' = [Started EXCEPT !.connected = TRUE]
    /\ UNCHANGED <<request_id, buffer, emitterVars, running, eventThread, rt,
                   hostVars, sideVars, wrote, delivered>>

\* disconnect(): closes the socket and forgets it, and notifies
\* "event-loop-stopped" (line 116).
Disconnect(t) ==
    /\ CanStart(t)
    /\ sock' = "none"
    /\ UNCHANGED th
    /\ hist' = Notified([Started EXCEPT !.closed = TRUE],
                        "event-loop-stopped", "", NoData)
    /\ UNCHANGED <<request_id, buffer, emitterVars, running, eventThread, rt,
                   hostVars, sideVars, wrote, delivered>>

\* connect() on a client that was disconnected: a new socket to the host,
\* which accepts a new connection; self._buffer, self._running and the
\* event thread are what they were.
Reconnect(t) ==
    /\ CanStart(t)
    /\ sock = "none"
    /\ hist.closed
    /\ sock' = "open"
    /\ c2h' = <<>> /\ h2c' = <<>>
    /\ peerClosed' = FALSE
    /\ hostSubs' = {}
    /\ hist' = Started
    /\ UNCHANGED <<request_id, buffer, emitterVars, running, eventThread, th,
                   rt, segmented, sideVars, wrote, delivered>>

(* ---------------------- VSCodeClient._send_request --------------------- *)
\* the history after sock.recv returned `chunk` to a reader, and after a
\* reader took `line` and its newline off the buffer; kept in the
\* scenario that traces the byte stream
Recvd(h, chunk) ==
    IF h.tracing THEN [h EXCEPT !.recvd = @ \o chunk] ELSE h
Took(h, line) ==
    IF h.tracing THEN [h EXCEPT !.taken = @ \o line \o <<NL>>] ELSE h
\* Variant: _send_request without the connection test of line 137-138
ReqCheckSkipped(t) ==
    /\ th[t].pc = "req_check"
    /\ th' = [th EXCEPT ![t].pc = "req_id"]
    /\ UNCHANGED <<clientVars, rt, hostVars, sideVars, wrote, delivered, hist>>

\* line 137-138: the connection test
ReqCheck(t) ==
    /\ th[t].pc = "req_check"
    /\ th' = [th EXCEPT ![t] =
                IF sock = "none"
                THEN LeaveRequest(@, Outcome("ConnectionError", "Not connected"))
                ELSE [@ EXCEPT !.pc = "req_id"]]
    /\ UNCHANGED <<clientVars, rt, hostVars, sideVars, wrote, delivered, hist>>

\* Variant: the increment of line 141-142 without self._lock, where a
\* thread may add one to a value it read before another thread's store
ReqIdUnlocked(t) ==
    /\ th[t].pc = "req_id"
    /\ \E seen \in {v \in {request_id - 1, request_id} : v >= 0} :
         /\ request_id' = seen + 1
         /\ th' = [th EXCEPT ![t].pc = "req_write", ![t].rid = seen + 1]
    /\ hist' = [hist EXCEPT !.allocated = Append(@, th'[t].rid)]
    /\ UNCHANGED <<sock, buffer, emitterVars, running, eventThread, rt,
                   hostVars, sideVars, wrote, delivered>>

\* line 140-142: the id is allocated under self._lock
ReqId(t) ==
    /\ th[t].pc = "req_id"
    /\ request_id' = request_id + 1
    /\ th' = [th EXCEPT ![t].pc = "req_write", ![t].rid = request_id']
    /\ hist' = [hist EXCEPT !.allocated = Append(@, th'[t].rid)]
    /\ UNCHANGED <<sock, buffer, emitterVars, running, eventThread, rt,
                   hostVars, sideVars, wrote, delivered>>

\* line 144-156: the frame is written with one sendall.  With self.sock
\* None the call raises AttributeError, on a socket that was never
\* connected OSError.
ReqWrite(t) ==
    /\ th[t].pc = "req_write"
    /\ IF sock = "open"
       THEN /\ c2h' = Append(c2h, Request(th[t].rid, th[t].method, th[t].e))
            /\ wrote' = Append(wrote, Request(th[t].rid, th[t].method, th[t].e))
            /\ th' = [th EXCEPT ![t].pc = "req_recv"]
       ELSE /\ th' = [th EXCEPT ![t] = LeaveRequest(@,
                        Outcome(IF sock = "none" THEN "AttributeError" ELSE "OSError",
                                "sendall"))]
            /\ UNCHANGED <<c2h, wrote>>
    /\ UNCHANGED <<clientVars, rt, h2c, peerClosed, segmented, sideVars, hostSubs, delivered,
                   hist>>

\* line 168-171: recv blocks until bytes are there and returns any
\* non-empty prefix of them; it returns b"" once the peer has closed.
ReqRecv(t) ==
    /\ th[t].pc = "req_recv"
    /\ \/ /\ sock = "open" /\ h2c # <<>>
          /\ \E n \in ChunkSizes :
               /\ th' = [th EXCEPT ![t].pc = "req_absorb",
                                   ![t].chunk = SubSeq(h2c, 1, n)]
               /\ h2c' = SubSeq(h2c, n + 1, Len(h2c))
               /\ hist' = Recvd(hist, SubSeq(h2c, 1, n))
       \/ /\ sock = "open" /\ h2c = <<>> /\ peerClosed
          /\ th' = [th EXCEPT ![t] = LeaveRequest(@,
                       Outcome("ConnectionError", "Connection closed by VS Code"))]
          /\ UNCHANGED <<h2c, hist>>
       \/ /\ sock # "open"
          /\ th' = [th EXCEPT ![t] = LeaveRequest(@,
                       Outcome(IF sock = "none" THEN "AttributeError" ELSE "OSError",
                               "recv"))]
          /\ UNCHANGED <<h2c, hist>>
    /\ UNCHANGED <<clientVars, rt, c2h, peerClosed, segmented, sideVars, hostSubs, wrote,
                   delivered>>

\* Variant: line 187 reading a key the response does not have
ResponseOutcomeWrongKey(line) ==
    IF ~Decodes(line) THEN Outcome("ValueError", "JSONDecodeError")
    ELSE IF Decode(line).hasError THEN Outcome("RuntimeError", Decode(line).error)
    ELSE Outcome("ok", "None")

\* Variant: line 184-185 raising ConnectionError for a host error
ResponseOutcomeConnectionError(line) ==
    IF ~Decodes(line) THEN Outcome("ValueError", "JSONDecodeError")
    ELSE IF Decode(line).hasError THEN Outcome("ConnectionError", Decode(line).error)
    ELSE Outcome("ok", Decode(line).result)

\* line 182-187: what _send_request makes of the line it took
ResponseOutcome(line) ==
    IF ~Decodes(line) THEN Outcome("ValueError", "JSONDecodeError")
    ELSE IF Decode(line).hasError THEN Outcome("RuntimeError", Decode(line).error)
    ELSE Outcome("ok", Decode(line).result)

\* Variant: _send_request comparing the id of the line with its request's
\* id and reading on, the line left in the buffer, when they differ
ReqAbsorbMatching(t) ==
    /\ th[t].pc = "req_absorb"
    /\ LET b == buffer \o th[t].chunk
           own == /\ HasNL(b) /\ Decodes(LineOf(b))
                  /\ Decode(LineOf(b)).type = "none"
                  /\ Decode(LineOf(b)).id = th[t].rid
       IN
       IF own
       THEN /\ buffer' = RestOf(b)
            /\ th' = [th EXCEPT ![t] =
                        LeaveRequest([@ EXCEPT !.line = LineOf(b), !.chunk = <<>>],
                                     ResponseOutcome(LineOf(b)))]
       ELSE /\ buffer' = b
            /\ th' = [th EXCEPT ![t].pc = "req_recv", ![t].chunk = <<>>]
    /\ UNCHANGED <<sock, request_id, emitterVars, running, eventThread, rt,
                   hostVars, sideVars, wrote, delivered, hist>>

\* line 173-187: the chunk is appended to the shared buffer; with a newline
\* in the buffer the first line is taken as the response and the rest is
\* left, otherwise the loop reads again.
ReqAbsorb(t) ==
    /\ th[t].pc = "req_absorb"
    /\ LET b == buffer \o th[t].chunk IN
       IF HasNL(b)
       THEN /\ buffer' = RestOf(b)
            /\ th' = [th EXCEPT ![t] =
                        LeaveRequest([@ EXCEPT !.line = LineOf(b), !.chunk = <<>>],
                                     ResponseOutcome(LineOf(b)))]
            /\ hist' = Took(hist, LineOf(b))
       ELSE /\ buffer' = b
            /\ th' = [th EXCEPT ![t].pc = "req_recv", ![t].chunk = <<>>]
            /\ UNCHANGED hist
    /\ UNCHANGED <<sock, request_id, emitterVars, running, eventThread, rt,
                   hostVars, sideVars, wrote, delivered>>

SendRequestStep(t) ==
    ReqCheck(t) \/ ReqId(t) \/ ReqWrite(t) \/ ReqRecv(t) \/ ReqAbsorb(t)

\* a one-shot editor call (execute_command, get_commands, ...): one
\* _send_request whose outcome goes to the caller
Call(t) ==
    /\ CanStart(t)
    /\ th' = [th EXCEPT ![t] = EnterRequest([IdleThread EXCEPT !.op = "call"],
                                            "commands.getCommands", "call_ret")]
    /\ hist' = Started
    /\ UNCHANGED <<clientVars, rt, hostVars, sideVars, wrote, delivered>>

CallReturn(t) ==
    /\ th[t].pc = "call_ret"
    /\ th' = [th EXCEPT ![t] = Return(@)]
    /\ UNCHANGED <<clientVars, rt, hostVars, sideVars, wrote, delivered, hist>>


(* ------------------- VSCodeClient.subscribe (245-291) ------------------ *)
\* threads that may still construct an emitter
Creating ==
    {u \in Callers : th[u].pc \in {"sub_start", "sub_lookup"}}

\* an emitter object can still be constructed (the run's are bounded)
CanCreate == nEmitters + Cardinality(Creating) < MaxEmitters
\* line 267: the test that decides whether the router thread is started
EnterSubscribe(loc, op, e, h) ==
    [loc EXCEPT !.op = op, !.e = e, !.h = h,
                !.pc = IF ~running /\ eventThread = NoThread
                       THEN "sub_start" ELSE "sub_lookup"]

SubscribeEnter(t, op, e, h) ==
    /\ CanStart(t)
    /\ CanCreate
    /\ th' = [th EXCEPT ![t] = EnterSubscribe(IdleThread, op, e, h)]
    /\ hist' = Started
    /\ UNCHANGED <<clientVars, rt, hostVars, sideVars, wrote, delivered>>

Subscribe(t, e, h) == SubscribeEnter(t, "subscribe", e, h)

\* line 268-270: _running is set and a new daemon thread runs _event_loop
SubscribeStartThread(t) ==
    /\ th[t].pc = "sub_start"
    /\ \E r \in Routers :
         /\ rt[r].pc = "off"
         /\ \A q \in Routers : rt[q].pc = "off" => r <= q
         /\ running' = TRUE
         /\ eventThread' = r
         /\ rt' = [rt EXCEPT ![r].pc = "start"]
    /\ th' = [th EXCEPT ![t].pc = "sub_lookup"]
    /\ UNCHANGED <<sock, request_id, buffer, emitterVars, hostVars, sideVars, wrote,
                   delivered, hist>>

\* line 272-288: the emitter of the event is created when the table has none
SubscribeLookup(t) ==
    /\ th[t].pc = "sub_lookup"
    /\ IF emitters[th[t].e] = NoEmitter
       THEN /\ nEmitters' = nEmitters + 1
            /\ emitters' = [emitters EXCEPT ![th[t].e] = nEmitters + 1]
            /\ hookEvent' = [hookEvent EXCEPT ![nEmitters + 1] = th[t].e]
       ELSE UNCHANGED <<nEmitters, emitters, hookEvent>>
    /\ th' = [th EXCEPT ![t].pc = "sub_event"]
    /\ UNCHANGED <<wvVars, sock, request_id, buffer, handlersOf, closures, running,
                   eventThread, rt, hostVars, sideVars, wrote, delivered, hist>>

(* ----------------------- EventEmitter (core.py) ------------------------ *)
\* the `finally` of a hook (client.py 277-278, 283-284) notifies the session
\* listeners, whether the request returned or raised (outcome out); the
\* emitter then swallows the error (core.py 43-45, 58-59, 75-76)
\* Variant: the notification after the request instead of in a `finally`
AckedOnSuccess(h, state, out) ==
    IF out.kind = "ok"
    THEN [h EXCEPT !.acks = Append(@, state)]
    ELSE [h EXCEPT !.swallowed = @ + 1]
Acked(h, state, out) ==
    [h EXCEPT !.acks = Append(@, state),
              !.swallowed = IF out.kind = "ok" THEN @ ELSE @ + 1]
\* event(), line 34-38, under the emitter's lock
EventLocked(hs, h) == [first |-> hs = <<>>, handlers |-> Append(hs, h)]
\* remove() line 65-70 and _dispose() line 48-53, under the emitter's lock
RemoveLocked(hs, h) ==
    LET after == IF InSeq(h, hs) THEN RemoveFirst(hs, h) ELSE hs
    IN  [no_listeners |-> after = <<>>, handlers |-> after]

\* the closures a caller of the API holds: add_event_listener's results
Returned(loc) ==
    IF loc.op = "add_event_listener" /\ loc.k = <<>>
    THEN {Closure(loc.em, loc.h)} ELSE {}

\* line 291: the table is read again and emitter.event(handler) registers
\* the handler; the first handler runs on_first_add (line 40-45), which is
\* _on_first_add of client.py 274-278.
SubscribeEvent(t) ==
    /\ th[t].pc = "sub_event"
    /\ LET em == emitters[th[t].e] IN
       IF em = NoEmitter
       THEN /\ th' = [th EXCEPT ![t].pc = "sub_raise",
                                ![t].out = Outcome("KeyError", th[t].e)]
            /\ UNCHANGED <<handlersOf, closures, hist>>
       ELSE LET r == EventLocked(handlersOf[em], th[t].h)
                loc == [th[t] EXCEPT !.em = em, !.flag = r.first]
            IN  /\ handlersOf' = [handlersOf EXCEPT ![em] = r.handlers]
                /\ IF r.first
                   THEN /\ th' = [th EXCEPT ![t] =
                                    EnterRequest([loc EXCEPT !.e = hookEvent[em]],
                                                 "events.subscribe", "sub_ack")]
                        /\ hist' = [hist EXCEPT !.up = @ + 1, !.firstHooks = @ + 1]
                        /\ UNCHANGED closures
                   ELSE /\ th' = [th EXCEPT ![t] = Return(loc)]
                        /\ closures' = closures \cup Returned(loc)
                        /\ UNCHANGED hist
    /\ UNCHANGED <<wvVars, sock, request_id, buffer, emitters, hookEvent, nEmitters,
                   running, eventThread, rt, hostVars, sideVars, wrote, delivered>>

\* line 291 raised KeyError (the entry was deleted meanwhile): the call
\* ends with the error.
SubscribeRaise(t) ==
    /\ th[t].pc = "sub_raise"
    /\ th' = [th EXCEPT ![t] = IdleThread]
    /\ UNCHANGED <<clientVars, rt, hostVars, sideVars, wrote, delivered, hist>>

\* _on_first_add has returned or raised: "subscription-ack" is notified, the
\* emitter swallows the error, and the registration call returns.
SubscribeAck(t) ==
    /\ th[t].pc = "sub_ack"
    /\ th' = [th EXCEPT ![t] = Return(@)]
    /\ closures' = closures \cup Returned(th[t])
    /\ hist' = Acked(hist, "subscription-ack", th[t].out)
    /\ UNCHANGED <<wvVars, sock, request_id, buffer, emitters, handlersOf, hookEvent,
                   nEmitters, running, eventThread, rt, hostVars, sideVars, wrote,
                   delivered>>


\* add_event_listener(event, handler): registers as subscribe does and
\* returns the unsubscribe closure of emitter.event(handler).  Each call is
\* given a handler object that has no closure yet.
AddEventListener(t, e, h) ==
    /\ \A c \in closures : c.h # h
    /\ \A u \in Callers : ~(th[u].op = "add_event_listener" /\ Busy(u) /\ th[u].h = h)
    /\ SubscribeEnter(t, "add_event_listener", e, h)

(* ------------------ VSCodeClient.unsubscribe (293-318) ----------------- *)
\* line 301-304 with a handler given: nothing to do without an emitter
Unsubscribe(t, e, h) ==
    /\ CanStart(t)
    /\ th' = [th EXCEPT ![t] =
                IF emitters[e] = NoEmitter THEN IdleThread
                ELSE [IdleThread EXCEPT !.op = "unsubscribe", !.e = e, !.h = h,
                         !.em = emitters[e], !.pc = "unsub_remove"]]
    /\ hist' = Started
    /\ UNCHANGED <<clientVars, rt, hostVars, sideVars, wrote, delivered>>

\* The locked section of remove() / _dispose() on emitter th[t].em, then,
\* with no handler left, on_no_listeners (line 55-59 / 72-76), which is
\* _on_no_listeners of client.py 280-284; otherwise the position `done`.
RemoveThenHook(t, done) ==
    LET em == th[t].em
        r == RemoveLocked(handlersOf[em], th[t].h)
        emptied == handlersOf[em] # <<>> /\ r.no_listeners
    IN  /\ handlersOf' = [handlersOf EXCEPT ![em] = r.handlers]
        /\ IF r.no_listeners
           THEN /\ th' = [th EXCEPT ![t] =
                            EnterRequest([@ EXCEPT !.flag = TRUE, !.e = hookEvent[em],
                                                   !.k = <<done>> \o th[t].k],
                                         "events.unsubscribe", "hook_ack")]
                /\ hist' = [hist EXCEPT !.noHooks = @ + 1,
                               !.down = IF emptied THEN @ + 1 ELSE @,
                               !.absentHook = @ \/ ~InSeq(th[t].h, handlersOf[em])]
           ELSE /\ th' = [th EXCEPT ![t].pc = done, ![t].flag = FALSE]
                /\ UNCHANGED hist

\* line 314: emitter.remove(handler)
EmitterRemove(t) ==
    /\ th[t].pc = "unsub_remove"
    /\ RemoveThenHook(t, "unsub_has")
    /\ UNCHANGED <<wvVars, sock, request_id, buffer, emitters, hookEvent, nEmitters,
                   closures, running, eventThread, rt, hostVars, sideVars, wrote, delivered>>

\* _on_no_listeners has returned or raised: "unsubscription-ack" is
\* notified and the emitter swallows the error.
HookAck(t) ==
    /\ th[t].pc = "hook_ack"
    /\ th' = [th EXCEPT ![t] = Return(@)]
    /\ hist' = Acked(hist, "unsubscription-ack", th[t].out)
    /\ UNCHANGED <<clientVars, rt, hostVars, sideVars, wrote, delivered>>

\* line 316: emitter.has_listeners()
UnsubscribeHasListeners(t) ==
    /\ th[t].pc = "unsub_has"
    /\ th' = [th EXCEPT ![t] = IF handlersOf[th[t].em] = <<>>
                                THEN [@ EXCEPT !.pc = "unsub_del"] ELSE IdleThread]
    /\ UNCHANGED <<clientVars, rt, hostVars, sideVars, wrote, delivered, hist>>

\* line 317-318: the table entry of the event is deleted, whatever it holds
UnsubscribeDelete(t) ==
    /\ th[t].pc = "unsub_del"
    /\ emitters' = [emitters EXCEPT ![th[t].e] = NoEmitter]
    /\ th' = [th EXCEPT ![t] = IdleThread]
    /\ UNCHANGED <<wvVars, sock, request_id, buffer, handlersOf, hookEvent, nEmitters,
                   closures, running, eventThread, rt, hostVars, sideVars, wrote, delivered,
                   hist>>

(* ------------------ VSCodeClient.subscription (430-450) ---------------- *)
\* line 443, the entry of `with client.subscription(event, handler)`:
\* self.subscribe(event, handler), then the body runs.  A thread is in at
\* most one such block at a time.
SubscriptionEnter(t, e, h) ==
    /\ CanStart(t)
    /\ CanCreate
    /\ blocks[t].state # "in"
    /\ th' = [th EXCEPT ![t] = EnterSubscribe(IdleThread, "subscribe", e, h)]
    /\ blocks' = [blocks EXCEPT ![t] = [NoBlock EXCEPT !.state = "in", !.e = e, !.h = h]]
    /\ hist' = Started
    /\ UNCHANGED <<clientVars, rt, hostVars, ctorVars, fanVars, emVars, watcher,
                   session, wrote, delivered>>

\* the handlers registered for event name e, in registration order
HandlersFor(e) == IF emitters[e] = NoEmitter THEN <<>> ELSE handlersOf[emitters[e]]

\* Variant: the block left without the `finally` clause
SubscriptionExitKeeps(t) ==
    /\ CanStart(t)
    /\ blocks[t].state = "in"
    /\ th' = [th EXCEPT ![t] = IdleThread]
    /\ blocks' = [blocks EXCEPT ![t] = [@ EXCEPT !.state = "left",
                                           !.before = HandlersFor(blocks[t].e),
                                           !.sent = Len(wrote)]]
    /\ hist' = Started
    /\ UNCHANGED <<clientVars, rt, hostVars, ctorVars, fanVars, emVars, watcher,
                   session, wrote, delivered>>

\* line 446-450: the body has ended, by its end or by an exception; the
\* `finally` clause calls self.unsubscribe(event, handler) inside
\* `try ... except Exception: pass`.  The block's record keeps the
\* event's handlers and the number of requests written at this moment.
SubscriptionExit(t) ==
    /\ CanStart(t)
    /\ blocks[t].state = "in"
    /\ th' = [th EXCEPT ![t] =
                IF emitters[blocks[t].e] = NoEmitter THEN IdleThread
                ELSE [IdleThread EXCEPT !.op = "subscription_exit",
                         !.e = blocks[t].e, !.h = blocks[t].h,
                         !.em = emitters[blocks[t].e], !.pc = "unsub_remove"]]
    /\ blocks' = [blocks EXCEPT ![t] = [@ EXCEPT !.state = "left",
                                           !.before = HandlersFor(blocks[t].e),
                                           !.sent = Len(wrote)]]
    /\ hist' = Started
    /\ UNCHANGED <<clientVars, rt, hostVars, ctorVars, fanVars, emVars, watcher,
                   session, wrote, delivered>>

(* ------------------ session listeners (client.py 390-428) -------------- *)
\* add_session_listener(listener) (390-401): the listener is appended
\* under the lock and the remover _remove is returned; with scoped, the
\* call is the entry of `with client.session_listener(listener)` (424)
AddSessionListener(l, scoped) ==
    /\ SessionOps < MaxOps
    /\ session' = [session EXCEPT !.listeners = Append(@, l),
                                  !.added = Append(@, [l |-> l, scoped |-> scoped])]
    /\ UNCHANGED <<clientVars, th, rt, hostVars, ctorVars, fanVars, emVars, watcher,
                   blocks, wrote, delivered, hist>>

\* remove_session_listener(listener) (403-408): under the lock, the first
\* occurrence of the listener is removed when there is one
RemoveSessionListener(l) ==
    /\ SessionOps < MaxOps
    /\ session' = [session EXCEPT !.listeners = RemoveFirst(@, l),
                                  !.removes = @ + 1, !.by = 0]
    /\ UNCHANGED <<clientVars, th, rt, hostVars, ctorVars, fanVars, emVars, watcher,
                   blocks, wrote, delivered, hist>>

\* the remover returned by the i-th add_session_listener call (398-399),
\* called by its holder or, for a scoped call, by the `finally` clause of
\* the context manager (427-428), which runs once
SessionRemover(i) ==
    /\ SessionOps < MaxOps
    /\ i \in 1..Len(session.added)
    /\ session.added[i].scoped => i \notin session.used
    /\ session' = [session EXCEPT !.listeners = RemoveFirst(@, session.added[i].l),
                                  !.used = @ \cup {i},
                                  !.removes = @ + 1, !.by = i]
    /\ UNCHANGED <<clientVars, th, rt, hostVars, ctorVars, fanVars, emVars, watcher,
                   blocks, wrote, delivered, hist>>

\* _notify_session_listeners (410-412) called by thread n: the list is
\* copied under the lock
NotifySessionListeners(n) ==
    /\ session.notifying[n] = NotNotifying
    /\ Len(session.snaps) < MaxEvents
    /\ session' = [session EXCEPT
                     !.notifying[n] = [id |-> Len(session.snaps) + 1,
                                       todo |-> session.listeners],
                     !.snaps = Append(@, session.listeners)]
    /\ UNCHANGED <<clientVars, th, rt, hostVars, ctorVars, fanVars, emVars, watcher,
                   blocks, wrote, delivered, hist>>

\* line 414-418: the next listener of the copy is called inside
\* try/except; what "lx" raises is printed and the loop goes on; after the
\* last listener the call returns to its thread
SessionListenerCall(n) ==
    /\ session.notifying[n] # NotNotifying
    /\ LET cur == session.notifying[n]
       IN  session' = [session EXCEPT
                         !.calls = IF cur.todo = <<>> THEN @
                                   ELSE Append(@, [l |-> Head(cur.todo), id |-> cur.id]),
                         !.notifying[n] = IF Len(cur.todo) <= 1 THEN NotNotifying
                                          ELSE [cur EXCEPT !.todo = Tail(@)]]
    /\ UNCHANGED <<clientVars, th, rt, hostVars, ctorVars, fanVars, emVars, watcher,
                   blocks, wrote, delivered, hist>>

\* no event is in flight or being dispatched
Quiet ==
    /\ h2c = <<>> /\ buffer = <<>>
    /\ \A r \in Routers : rt[r].pc \in {"off", "start", "loop", "recv", "exit", "stopped"}

\* unsubscribe(event) without handler (301-311): nothing without an
\* emitter; otherwise the request events.unsubscribe is sent
UnsubscribeAll(t, e) ==
    /\ CanStart(t)
    /\ th' = IF emitters[e] = NoEmitter THEN th
             ELSE [th EXCEPT ![t] =
                     EnterRequest([IdleThread EXCEPT !.op = "unsubscribe_all",
                                       !.e = e, !.em = emitters[e]],
                                  "events.unsubscribe", "unsub_all_del")]
    /\ hist' = [Started EXCEPT !.alls = @ + 1]
    /\ UNCHANGED <<clientVars, rt, hostVars, sideVars, wrote, delivered>>

\* Variant: the table entry deleted after the request instead of in a
\* `finally`, so that a failed request leaves the emitter in the table
UnsubscribeAllDeleteOnSuccess(t) ==
    /\ th[t].pc = "unsub_all_del"
    /\ emitters' = IF th[t].out.kind = "ok"
                   THEN [emitters EXCEPT ![th[t].e] = NoEmitter] ELSE emitters
    /\ th' = [th EXCEPT ![t] = Return(@)]
    /\ hist' = [hist EXCEPT !.cleared = IF Quiet THEN @ \cup {th[t].e}
                                        ELSE @ \ {th[t].e}]
    /\ UNCHANGED <<wvVars, sock, request_id, buffer, handlersOf, hookEvent,
                   nEmitters, closures, running, eventThread, rt, hostVars,
                   sideVars, wrote, delivered>>

\* line 310-311: `finally: del self._emitters[event]`; the request's value
\* is dropped, its error goes on to the caller.  `cleared` in the history
\* names the event when no frame was in flight at that moment.
UnsubscribeAllDelete(t) ==
    /\ th[t].pc = "unsub_all_del"
    /\ emitters' = [emitters EXCEPT ![th[t].e] = NoEmitter]
    /\ th' = [th EXCEPT ![t] = Return(@)]
    /\ hist' = [hist EXCEPT !.cleared = IF Quiet THEN @ \cup {th[t].e}
                                        ELSE @ \ {th[t].e}]
    /\ UNCHANGED <<wvVars, sock, request_id, buffer, handlersOf, hookEvent,
                   nEmitters, closures, running, eventThread, rt, hostVars,
                   sideVars, wrote, delivered>>

(* ------------- the closure returned by EventEmitter.event -------------- *)
\* _dispose(), line 47-59, called on closure c
Dispose(t, c) ==
    /\ CanStart(t)
    /\ c \in closures
    /\ LET loc == [IdleThread EXCEPT !.op = "dispose", !.em = c.em, !.h = c.h,
                                     !.late = c \in hist.called]
           r == RemoveLocked(handlersOf[c.em], c.h)
           emptied == handlersOf[c.em] # <<>> /\ r.no_listeners
           removed == r.handlers # handlersOf[c.em]
       IN  /\ handlersOf' = [handlersOf EXCEPT ![c.em] = r.handlers]
           /\ IF r.no_listeners
              THEN /\ th' = [th EXCEPT ![t] =
                               EnterRequest([loc EXCEPT !.flag = TRUE,
                                                 !.e = hookEvent[c.em]],
                                            "events.unsubscribe", "hook_ack")]
                   /\ hist' = [Started EXCEPT !.noHooks = @ + 1,
                                  !.down = IF emptied THEN @ + 1 ELSE @,
                                  !.called = @ \cup {c},
                                  !.recalled = @ \/ loc.late,
                                  !.lateRemoved = @ \/ (loc.late /\ removed)]
              ELSE /\ UNCHANGED th
                   /\ hist' = [Started EXCEPT !.called = @ \cup {c},
                                  !.recalled = @ \/ loc.late,
                                  !.lateRemoved = @ \/ (loc.late /\ removed)]
    /\ UNCHANGED <<wvVars, sock, request_id, buffer, emitters, hookEvent, nEmitters,
                   closures, running, eventThread, rt, hostVars, sideVars, wrote, delivered>>

(* -------------------- VSCodeClient._event_loop (329-376) --------------- *)
\* line 331: the new thread notifies "event-loop-started"
RouterStart(r) ==
    /\ rt[r].pc = "start"
    /\ rt' = [rt EXCEPT ![r].pc = "loop"]
    /\ hist' = Notified(hist, "event-loop-started", "", NoData)
    /\ UNCHANGED <<clientVars, th, hostVars, sideVars, wrote, delivered>>

\* line 376: the loop has ended, "event-loop-stopped" is notified and the
\* thread ends
RouterExit(r) ==
    /\ rt[r].pc = "exit"
    /\ rt' = [rt EXCEPT ![r].pc = "stopped"]
    /\ hist' = Notified(hist, "event-loop-stopped", "", NoData)
    /\ UNCHANGED <<clientVars, th, hostVars, sideVars, wrote, delivered>>

\* line 332: the loop's test of _running
RouterLoop(r) ==
    /\ rt[r].pc = "loop"
    /\ rt' = [rt EXCEPT ![r].pc = IF running THEN "recv" ELSE "exit"]
    /\ UNCHANGED <<clientVars, th, hostVars, sideVars, wrote, delivered, hist>>

\* line 342-345: recv on the same socket; b"" or an error ends the loop
RouterRecv(r) ==
    /\ rt[r].pc = "recv"
    /\ \/ /\ sock = "open" /\ h2c # <<>>
          /\ \E n \in ChunkSizes :
               /\ rt' = [rt EXCEPT ![r].pc = "absorb", ![r].chunk = SubSeq(h2c, 1, n)]
               /\ h2c' = SubSeq(h2c, n + 1, Len(h2c))
               /\ hist' = Recvd(hist, SubSeq(h2c, 1, n))
       \/ /\ \/ sock = "open" /\ h2c = <<>> /\ peerClosed
             \/ sock # "open"
          /\ rt' = [rt EXCEPT ![r].pc = "exit"]
          /\ UNCHANGED <<h2c, hist>>
    /\ UNCHANGED <<clientVars, th, c2h, peerClosed, segmented, sideVars, hostSubs, wrote,
                   delivered>>

\* line 347
RouterAbsorb(r) ==
    /\ rt[r].pc = "absorb"
    /\ buffer' = buffer \o rt[r].chunk
    /\ rt' = [rt EXCEPT ![r].pc = "drain", ![r].chunk = <<>>]
    /\ UNCHANGED <<sock, request_id, emitterVars, running, eventThread, th,
                   hostVars, sideVars, wrote, delivered, hist>>

\* the history after the router took `line` from the buffer: event frames
\* without emitter are counted, the ids of other frames are kept
DrainedHist(line, known) ==
    IF ~Decodes(line) THEN hist
    ELSE IF Decode(line).type = "event"
    THEN (IF known THEN hist ELSE [hist EXCEPT !.ignored = @ + 1])
    ELSE [hist EXCEPT !.dropped = @ \cup {Decode(line).id}]

\* Variant: the line loop keeping a frame that is not an event for the
\* thread that waits for it, at the end of the buffer
RouterDrainRequeues(r) ==
    /\ rt[r].pc = "drain"
    /\ IF ~HasNL(buffer)
       THEN /\ rt' = [rt EXCEPT ![r].pc = "loop"]
            /\ UNCHANGED <<buffer, hist>>
       ELSE LET line == LineOf(buffer)
                known == Decode(line).event \in Events
                         /\ emitters[Decode(line).event] # NoEmitter
                response == Decodes(line) /\ Decode(line).type # "event"
            IN
            /\ buffer' = IF response THEN RestOf(buffer) \o line \o <<NL>>
                         ELSE RestOf(buffer)
            /\ rt' = [rt EXCEPT ![r] =
                 IF line = <<>> THEN @
                 ELSE IF ~Decodes(line) THEN [@ EXCEPT !.pc = "exit"]
                 ELSE IF Decode(line).type = "event" /\ known
                 THEN [@ EXCEPT !.pc = "invoke", !.frame = Decode(line),
                           !.fired = handlersOf[emitters[Decode(line).event]],
                           !.snap = handlersOf[emitters[Decode(line).event]]]
                 ELSE IF response THEN [@ EXCEPT !.pc = "loop"]
                 ELSE @]
            /\ hist' = IF response THEN hist ELSE DrainedHist(line, known)
    /\ UNCHANGED <<sock, request_id, emitterVars, running, eventThread, th,
                   hostVars, sideVars, wrote, delivered>>

\* Variant: the line loop without the test `event_name in self._emitters`
\* of line 362, where the lookup's KeyError is caught at line 366 and
\* "event-dispatched" is notified all the same
RouterDrainUnchecked(r) ==
    /\ rt[r].pc = "drain"
    /\ IF ~HasNL(buffer)
       THEN /\ rt' = [rt EXCEPT ![r].pc = "loop"]
            /\ UNCHANGED <<buffer, hist>>
       ELSE LET line == LineOf(buffer)
                known == Decode(line).event \in Events
                         /\ emitters[Decode(line).event] # NoEmitter
            IN
            /\ buffer' = RestOf(buffer)
            /\ rt' = [rt EXCEPT ![r] =
                 IF line = <<>> THEN @
                 ELSE IF ~Decodes(line) THEN [@ EXCEPT !.pc = "exit"]
                 ELSE IF Decode(line).type = "event"
                 THEN [@ EXCEPT !.pc = "invoke", !.frame = Decode(line),
                           !.fired = IF known
                                     THEN handlersOf[emitters[Decode(line).event]]
                                     ELSE <<>>,
                           !.snap = IF known
                                    THEN handlersOf[emitters[Decode(line).event]]
                                    ELSE <<>>]
                 ELSE @]
            /\ hist' = DrainedHist(line, known)
    /\ UNCHANGED <<sock, request_id, emitterVars, running, eventThread, th,
                   hostVars, sideVars, wrote, delivered>>

\* line 350-363: the next line leaves the buffer; a blank line is skipped,
\* a line that does not decode raises out of the while loop (line 372-375),
\* an event frame whose name has an emitter is fired: fire() takes its
\* snapshot of the handlers under the emitter's lock (core.py 83-84).
RouterDrain(r) ==
    /\ rt[r].pc = "drain"
    /\ IF ~HasNL(buffer)
       THEN /\ rt' = [rt EXCEPT ![r].pc = "loop"]
            /\ UNCHANGED <<buffer, hist>>
       ELSE LET line == LineOf(buffer)
                known == Decode(line).event \in Events
                         /\ emitters[Decode(line).event] # NoEmitter
            IN
            /\ buffer' = RestOf(buffer)
            /\ rt' = [rt EXCEPT ![r] =
                 IF line = <<>> THEN @
                 ELSE IF ~Decodes(line) THEN [@ EXCEPT !.pc = "exit"]
                 ELSE IF Decode(line).type = "event" /\ known
                 THEN [@ EXCEPT !.pc = "invoke", !.frame = Decode(line),
                           !.fired = handlersOf[emitters[Decode(line).event]],
                           !.snap = handlersOf[emitters[Decode(line).event]]]
                 ELSE @]
            /\ hist' = Took(DrainedHist(line, known), line)
    /\ UNCHANGED <<sock, request_id, emitterVars, running, eventThread, th,
                   hostVars, sideVars, wrote, delivered>>

(* ----------------------- WebviewPanel (webview.py) --------------------- *)
PanelClosure(p, h) == [p |-> p, h |-> h]

\* _setup_message_subscription, line 432-434: panels[self._id] = self
Registered(reg, p) == [reg EXCEPT ![IdOf(p)] = p]

\* Variant: _setup_message_subscription without the test of line 438, each
\* panel installing a dispatcher of its own
InstallsDispatcherEachPanel(p) == ~panels[p].subscription_active

\* line 310 and 438: the panel sets up its subscription and the client has
\* no dispatcher yet, so one is created and registered
InstallsDispatcher(p) ==
    ~panels[p].subscription_active /\ msgHandlerRef = NoClosure

\* on_did_receive_message (303-324) up to the call of add_event_listener in
\* _setup_message_subscription (422-465); without that call, to the end.
OnDidReceiveMessage(t, p, h) ==
    /\ CanStart(t)
    /\ CanCreate
    /\ hist' = Started
    /\ IF panels[p].disposed
       THEN UNCHANGED <<th, panels, msgRegistry, panelClosures>>
       ELSE LET setup == ~panels[p].subscription_active
                subscribe == InstallsDispatcher(p)
            IN  /\ panels' = [panels EXCEPT
                       ![p].message_handlers = Append(@, h),
                       ![p].subscription_active = IF subscribe THEN @ ELSE TRUE]
                /\ msgRegistry' = IF setup THEN Registered(msgRegistry, p)
                                  ELSE msgRegistry
                /\ IF subscribe
                   THEN /\ th' = [th EXCEPT ![t] =
                                    EnterSubscribe(
                                        [IdleThread EXCEPT !.k = <<"wv_ref">>,
                                                           !.p = p, !.ph = h],
                                        "add_event_listener", WvMsg, GlobalHandler)]
                        /\ UNCHANGED panelClosures
                   ELSE /\ panelClosures' = panelClosures \cup {PanelClosure(p, h)}
                        /\ UNCHANGED th
    /\ UNCHANGED <<sock, request_id, buffer, emitters, handlersOf, hookEvent,
                   nEmitters, running, eventThread, closures, msgHandlerRef,
                   dispRegistry, dispHandlerRef, rt,
                   hostVars, sideVars, wrote, delivered>>

\* line 463-465 and 312: the unsubscribe callable is stored and the panel's
\* flag is set; on_did_receive_message returns its unsubscribe function.
SetupStoreRef(t) ==
    /\ th[t].pc = "wv_ref"
    /\ msgHandlerRef' = Closure(th[t].em, th[t].h)
    /\ panels' = [panels EXCEPT ![th[t].p].subscription_active = TRUE]
    /\ panelClosures' = panelClosures \cup {PanelClosure(th[t].p, th[t].ph)}
    /\ th' = [th EXCEPT ![t] = Return(@)]
    /\ UNCHANGED <<sock, request_id, buffer, emitters, handlersOf, hookEvent,
                   nEmitters, running, eventThread, closures, msgRegistry,
                   dispRegistry, dispHandlerRef, rt,
                   hostVars, sideVars, wrote, delivered, hist>>

\* _unregister_panel_from_global (23-49), the dict operations: the registry
\* after panel_id is deleted from it
Unregistered(reg, id) == [reg EXCEPT ![id] = NoPanel]

\* The unsubscribe function of on_did_receive_message (315-322): the handler
\* is removed; with none left the panel leaves the registry, and when the
\* registry is empty the shared unsubscribe callable is popped and called
\* (core.py 47-59).
PanelUnsubscribe(t, c) ==
    /\ CanStart(t)
    /\ c \in panelClosures
    /\ LET hs == panels[c.p].message_handlers
           after == IF InSeq(c.h, hs) THEN RemoveFirst(hs, c.h) ELSE hs
           reg == IF after = <<>> /\ msgRegistry # NoPanels
                  THEN Unregistered(msgRegistry, IdOf(c.p)) ELSE msgRegistry
           teardown == after = <<>> /\ msgRegistry # NoPanels /\ reg = NoPanels
           ref == msgHandlerRef
           r == RemoveLocked(handlersOf[ref.em], ref.h)
       IN  /\ panels' = [panels EXCEPT ![c.p].message_handlers = after]
           /\ msgRegistry' = reg
           /\ IF teardown /\ ref # NoClosure
              THEN /\ msgHandlerRef' = NoClosure
                   /\ handlersOf' = [handlersOf EXCEPT ![ref.em] = r.handlers]
                   /\ IF r.no_listeners
                      THEN /\ th' = [th EXCEPT ![t] =
                                EnterRequest([IdleThread EXCEPT !.op = "dispose",
                                                 !.em = ref.em, !.h = ref.h,
                                                 !.e = hookEvent[ref.em], !.flag = TRUE],
                                             "events.unsubscribe", "hook_ack")]
                           /\ hist' = [Started EXCEPT !.noHooks = @ + 1,
                                  !.down = IF handlersOf[ref.em] # <<>>
                                           THEN @ + 1 ELSE @]
                      ELSE /\ UNCHANGED th
                           /\ hist' = Started
              ELSE /\ hist' = Started
                   /\ UNCHANGED <<msgHandlerRef, handlersOf, th>>
    /\ UNCHANGED <<sock, request_id, buffer, emitters, hookEvent, nEmitters,
                   running, eventThread, closures, panelClosures, dispRegistry,
                   dispHandlerRef, rt, hostVars, sideVars,
                   wrote, delivered>>

(* ------------------- WebviewPanel: disposal (webview.py) --------------- *)
\* one call of a dispose handler: of which panel, which handler, by which
\* thread, in which function
DisposeCall(p, h, by, in) == [panel |-> p, h |-> h, by |-> by, in |-> in]

\* on_did_dispose, line 355-373: the handler is appended and the panel is
\* registered with the dispose dispatcher (_setup_dispose_subscription,
\* 466-499), up to the call of add_event_listener if there is one
OnDidDisposeStore(t, p, h) ==
    LET setup == ~panels[p].dispose_subscription_active
        subscribe == setup /\ dispHandlerRef = NoClosure
    IN  /\ panels' = [panels EXCEPT
               ![p].dispose_handlers = Append(@, h),
               ![p].dispose_subscription_active =
                    IF subscribe THEN @ ELSE TRUE]
        /\ dispRegistry' = IF setup THEN Registered(dispRegistry, p)
                           ELSE dispRegistry
        /\ th' = IF subscribe
                 THEN [th EXCEPT ![t] =
                         EnterSubscribe(
                             [IdleThread EXCEPT !.k = <<"wd_ref">>,
                                                !.p = p, !.ph = h],
                             "add_event_listener", WvDispose,
                             GlobalDisposeHandler)]
                 ELSE th
        /\ UNCHANGED dispCalls

\* the history when on_did_dispose is called on panel p: the handlers
\* stored on live panels and the calls made on disposed panels are counted
OnDidDisposeCalled(p) ==
    IF panels[p].disposed THEN [Started EXCEPT !.lateCalls = @ + 1]
    ELSE [Started EXCEPT !.stored[p] = @ + 1]

\* Variant: on_did_dispose without the test of _disposed at line 351, so
\* that the handler of a disposed panel is stored like any other
OnDidDisposeUntested(t, p, h) ==
    /\ CanStart(t)
    /\ CanCreate
    /\ hist' = OnDidDisposeCalled(p)
    /\ OnDidDisposeStore(t, p, h)
    /\ UNCHANGED <<sock, request_id, buffer, emitters, handlersOf, hookEvent,
                   nEmitters, running, eventThread, closures, msgRegistry,
                   msgHandlerRef, panelClosures, dispHandlerRef, rt, hostVars, sideVars,
                   wrote, received, wvCalls>>

\* on_did_dispose (326-373): on a disposed panel the handler is called at
\* once and nothing is stored (351-353); otherwise it is stored
OnDidDispose(t, p, h) ==
    /\ CanStart(t)
    /\ CanCreate
    /\ hist' = OnDidDisposeCalled(p)
    /\ IF panels[p].disposed
       THEN /\ dispCalls' = Append(dispCalls,
                                   DisposeCall(p, h, t, "on_did_dispose"))
            /\ UNCHANGED <<th, panels, dispRegistry>>
       ELSE OnDidDisposeStore(t, p, h)
    /\ UNCHANGED <<sock, request_id, buffer, emitters, handlersOf, hookEvent,
                   nEmitters, running, eventThread, closures, msgRegistry,
                   msgHandlerRef, panelClosures, dispHandlerRef, rt, hostVars, sideVars,
                   wrote, received, wvCalls>>

\* line 497-499 and 359: the unsubscribe callable is stored and the panel's
\* flag is set
SetupDisposeStoreRef(t) ==
    /\ th[t].pc = "wd_ref"
    /\ dispHandlerRef' = Closure(th[t].em, th[t].h)
    /\ panels' = [panels EXCEPT ![th[t].p].dispose_subscription_active = TRUE]
    /\ th' = [th EXCEPT ![t] = Return(@)]
    /\ UNCHANGED <<sock, request_id, buffer, emitters, handlersOf, hookEvent,
                   nEmitters, running, eventThread, closures, msgRegistry,
                   msgHandlerRef, panelClosures, dispRegistry, rt, hostVars, sideVars,
                   wrote, delivered, hist>>

\* the history when dispose() of panel p returns: `returned` names the
\* panel, `after` names it when every event dispatched from now on was
\* pushed after the return
DisposeReturned(h, p) ==
    [h EXCEPT !.returned = @ \cup {p},
              !.after = IF Quiet THEN @ \cup {p} ELSE @]

\* the history when dispose() of panel p is called: `again` counts the
\* calls made after an earlier call has returned or raised
DisposeCalled(p) ==
    IF p \in hist.returned \cup hist.raised
    THEN [Started EXCEPT !.again = @ + 1] ELSE Started

\* dispose() (545-549): nothing on a disposed panel; otherwise the request
\* window.disposeWebviewPanel is sent
PanelDispose(t, p) ==
    /\ CanStart(t)
    /\ hist' = IF panels[p].disposed
               THEN DisposeReturned(DisposeCalled(p), p)
               ELSE DisposeCalled(p)
    /\ th' = IF panels[p].disposed THEN th
             ELSE [th EXCEPT ![t] =
                     EnterRequest([IdleThread EXCEPT !.op = "panel_dispose",
                                       !.p = p, !.e = IdOf(p)],
                                  "window.disposeWebviewPanel", "pd_sent")]
    /\ UNCHANGED <<clientVars, rt, hostVars, sideVars, wrote, delivered>>

\* the methods of a panel that send one request, and the request's name
PanelMethods == {"update_html", "update_title", "post_message"}
MethodOf(m) ==
    IF m = "post_message" THEN "window.postMessageToWebview"
    ELSE "window.updateWebviewPanel"

\* Variant: a method that sends its request without the test of _disposed
PanelSendUntested(t, p, m) ==
    /\ CanStart(t)
    /\ hist' = IF panels[p].disposed THEN [Started EXCEPT !.refused = @ + 1]
               ELSE Started
    /\ th' = [th EXCEPT ![t] =
                EnterRequest([IdleThread EXCEPT !.op = m, !.p = p, !.e = IdOf(p)],
                             MethodOf(m), "call_ret")]
    /\ UNCHANGED <<clientVars, rt, hostVars, sideVars, wrote, delivered>>

\* update_html (162-175), update_title (177-190), post_message (211-232):
\* RuntimeError on a disposed panel, otherwise one request whose outcome
\* goes to the caller
PanelSend(t, p, m) ==
    /\ CanStart(t)
    /\ hist' = IF panels[p].disposed THEN [Started EXCEPT !.refused = @ + 1]
               ELSE Started
    /\ th' = IF panels[p].disposed THEN th
             ELSE [th EXCEPT ![t] =
                     EnterRequest([IdleThread EXCEPT !.op = m, !.p = p,
                                                     !.e = IdOf(p)],
                                  MethodOf(m), "call_ret")]
    /\ UNCHANGED <<clientVars, rt, hostVars, sideVars, wrote, delivered>>

\* Variant: dispose() setting _disposed before the request, so that a
\* failed request leaves the panel disposed
PanelDisposeSentMarksFirst(t) ==
    /\ th[t].pc = "pd_sent"
    /\ panels' = [panels EXCEPT ![th[t].p].disposed = TRUE]
    /\ IF th[t].out.kind = "ok"
       THEN /\ th' = [th EXCEPT ![t].pc = "pd_call",
                                ![t].calling = panels[th[t].p].dispose_handlers]
            /\ UNCHANGED hist
       ELSE /\ th' = [th EXCEPT ![t] = IdleThread]
            /\ hist' = [hist EXCEPT !.raised = @ \cup {th[t].p}]
    /\ UNCHANGED <<sock, request_id, buffer, emitters, handlersOf, hookEvent,
                   nEmitters, running, eventThread, closures, msgRegistry,
                   msgHandlerRef, panelClosures, dispRegistry, dispHandlerRef,
                   rt, hostVars, sideVars, wrote, delivered>>

\* line 549-552: the request has returned, _disposed is set and the
\* snapshot of the dispose handlers is taken; an error of the request ends
\* dispose() with that error
PanelDisposeSent(t) ==
    /\ th[t].pc = "pd_sent"
    /\ IF th[t].out.kind = "ok"
       THEN /\ panels' = [panels EXCEPT ![th[t].p].disposed = TRUE]
            /\ th' = [th EXCEPT ![t].pc = "pd_call",
                                ![t].calling = panels[th[t].p].dispose_handlers]
            /\ UNCHANGED hist
       ELSE /\ th' = [th EXCEPT ![t] = IdleThread]
            /\ hist' = [hist EXCEPT !.raised = @ \cup {th[t].p}]
            /\ UNCHANGED panels
    /\ UNCHANGED <<sock, request_id, buffer, emitters, handlersOf, hookEvent,
                   nEmitters, running, eventThread, closures, msgRegistry,
                   msgHandlerRef, panelClosures, dispRegistry, dispHandlerRef,
                   rt, hostVars, sideVars, wrote, delivered>>

\* line 552-558: the next handler of the snapshot is called; after the
\* last, the panel's list is cleared
PanelDisposeCall(t) ==
    /\ th[t].pc = "pd_call"
    /\ IF th[t].calling # <<>>
       THEN /\ dispCalls' = Append(dispCalls,
                                   DisposeCall(th[t].p, Head(th[t].calling), t,
                                               "dispose"))
            /\ th' = [th EXCEPT ![t].calling = Tail(@)]
            /\ UNCHANGED panels
       ELSE /\ panels' = [panels EXCEPT ![th[t].p].dispose_handlers = <<>>]
            /\ th' = [th EXCEPT ![t].pc = "pd_unreg_msg"]
            /\ UNCHANGED dispCalls
    /\ UNCHANGED <<sock, request_id, buffer, emitters, handlersOf, hookEvent,
                   nEmitters, running, eventThread, closures, msgRegistry,
                   msgHandlerRef, panelClosures, dispRegistry, dispHandlerRef,
                   rt, hostVars, sideVars, wrote, received, wvCalls, hist>>

\* _unregister_panel_from_global / _unregister_dispose_panel_from_global
\* (23-49, 55-75) on registry reg with unsubscribe callable ref: the
\* registry afterwards, and whether the callable is popped and called
UnregisterResult(reg, ref, id) ==
    LET after == IF reg = NoPanels THEN reg ELSE Unregistered(reg, id)
        emptied == reg # NoPanels /\ after = NoPanels
    IN  [registry |-> after, popped |-> emptied,
         called |-> emptied /\ ref # NoClosure]

\* The thread after calling unsubscribe callable ref (core.py 47-59) from
\* position pc of dispose(): in on_no_listeners when the emitter's list is
\* left empty, else at the position `next`.
AfterTeardown(loc, ref, next) ==
    IF RemoveLocked(handlersOf[ref.em], ref.h).no_listeners
    THEN EnterRequest([loc EXCEPT !.flag = TRUE, !.em = ref.em, !.h = ref.h,
                                  !.e = hookEvent[ref.em], !.k = <<next>>],
                      "events.unsubscribe", "hook_ack")
    ELSE [loc EXCEPT !.pc = next]

\* line 562: _unregister_panel_from_global(self._client, self._id)
PanelDisposeUnregMsg(t) ==
    /\ th[t].pc = "pd_unreg_msg"
    /\ LET u == UnregisterResult(msgRegistry, msgHandlerRef, IdOf(th[t].p))
           ref == msgHandlerRef
       IN  /\ msgRegistry' = u.registry
           /\ msgHandlerRef' = IF u.popped THEN NoClosure ELSE msgHandlerRef
           /\ IF u.called
              THEN /\ handlersOf' = [handlersOf EXCEPT ![ref.em] =
                                        RemoveLocked(@, ref.h).handlers]
                   /\ th' = [th EXCEPT ![t] =
                                AfterTeardown(@, ref, "pd_unreg_disp")]
              ELSE /\ th' = [th EXCEPT ![t].pc = "pd_unreg_disp"]
                   /\ UNCHANGED handlersOf
    /\ UNCHANGED <<sock, request_id, buffer, emitters, hookEvent, nEmitters,
                   running, eventThread, closures, panels, panelClosures,
                   dispRegistry, dispHandlerRef, rt, hostVars, sideVars, wrote, delivered,
                   hist>>

\* line 565: _unregister_dispose_panel_from_global(self._client, self._id),
\* and dispose() returns
PanelDisposeUnregDisp(t) ==
    /\ th[t].pc = "pd_unreg_disp"
    /\ LET u == UnregisterResult(dispRegistry, dispHandlerRef, IdOf(th[t].p))
           ref == dispHandlerRef
       IN  /\ dispRegistry' = u.registry
           /\ dispHandlerRef' = IF u.popped THEN NoClosure ELSE dispHandlerRef
           /\ IF u.called
              THEN /\ handlersOf' = [handlersOf EXCEPT ![ref.em] =
                                        RemoveLocked(@, ref.h).handlers]
                   /\ th' = [th EXCEPT ![t] = AfterTeardown(@, ref, "pd_done")]
              ELSE /\ th' = [th EXCEPT ![t].pc = "pd_done"]
                   /\ UNCHANGED handlersOf
    /\ UNCHANGED <<sock, request_id, buffer, emitters, hookEvent, nEmitters,
                   running, eventThread, closures, panels, panelClosures,
                   msgRegistry, msgHandlerRef, rt, hostVars, sideVars, wrote, delivered,
                   hist>>

\* dispose() has returned; `returned` in the history names the panel
PanelDisposeDone(t) ==
    /\ th[t].pc = "pd_done"
    /\ hist' = DisposeReturned(hist, th[t].p)
    /\ th' = [th EXCEPT ![t] = IdleThread]
    /\ UNCHANGED <<clientVars, rt, hostVars, sideVars, wrote, delivered>>

\* _global_dispose_handler (474-495) is called by fire(): the panel of the
\* event's id is looked up; when found it is marked disposed and the
\* snapshot of its dispose handlers is taken
RouterDisposeEnter(r) ==
    /\ rt[r].pc = "invoke"
    /\ rt[r].snap # <<>>
    /\ Head(rt[r].snap) = GlobalDisposeHandler
    /\ LET d == rt[r].frame.data
           found == /\ d.id # "" /\ d.id \in PanelIds
                    /\ dispRegistry[d.id] # NoPanel
       IN  IF found
           THEN /\ panels' = [panels EXCEPT ![dispRegistry[d.id]].disposed = TRUE]
                /\ rt' = [rt EXCEPT ![r].pc = "dispose_call",
                             ![r].snap = Tail(@),
                             ![r].panel = dispRegistry[d.id],
                             ![r].calling =
                                 panels[dispRegistry[d.id]].dispose_handlers]
           ELSE /\ rt' = [rt EXCEPT ![r].snap = Tail(@)]
                /\ UNCHANGED panels
    /\ UNCHANGED <<sock, request_id, buffer, emitters, handlersOf, hookEvent,
                   nEmitters, running, eventThread, closures, msgRegistry,
                   msgHandlerRef, panelClosures, dispRegistry, dispHandlerRef,
                   th, hostVars, sideVars, wrote, delivered, hist>>

\* line 489-494: the next dispose handler of the snapshot is called; after
\* the last, the panel's list is cleared and the dispatcher returns
RouterDisposeCall(r) ==
    /\ rt[r].pc = "dispose_call"
    /\ IF rt[r].calling # <<>>
       THEN /\ dispCalls' = Append(dispCalls,
                               DisposeCall(rt[r].panel, Head(rt[r].calling), "router",
                                           "_global_dispose_handler"))
            /\ rt' = [rt EXCEPT ![r].calling = Tail(@)]
            /\ UNCHANGED panels
       ELSE /\ panels' = [panels EXCEPT ![rt[r].panel].dispose_handlers = <<>>]
            /\ rt' = [rt EXCEPT ![r].pc = "invoke", ![r].panel = NoPanel]
            /\ UNCHANGED dispCalls
    /\ UNCHANGED <<sock, request_id, buffer, emitters, handlersOf, hookEvent,
                   nEmitters, running, eventThread, closures, msgRegistry,
                   msgHandlerRef, panelClosures, dispRegistry, dispHandlerRef,
                   th, hostVars, sideVars, wrote, received, wvCalls, hist>>

\* Variant: _global_handler without the lookup by id, calling the handlers
\* of every registered panel
GlobalHandlerCallsToAll(d) ==
    LET RECURSIVE Of(_)
        Of(ps) ==
            IF ps = {} THEN <<>>
            ELSE LET panel == CHOOSE x \in ps : TRUE
                     hs == panels[panel].message_handlers
                 IN  [i \in 1..Len(hs) |->
                        [panel |-> panel, h |-> hs[i], arg |-> d.message,
                         event |-> d]] \o Of(ps \ {panel})
    IN  Of({msgRegistry[i] : i \in PanelIds} \ {NoPanel})

\* _global_handler (440-459) called with event payload d: the calls it
\* makes, in order.  A payload without id, an empty registry and an id the
\* registry does not hold make none; each handler of the panel found is
\* called with the payload's message.
GlobalHandlerCalls(d) ==
    IF d.id = "" \/ msgRegistry = NoPanels \/ d.id \notin PanelIds THEN <<>>
    ELSE IF msgRegistry[d.id] = NoPanel THEN <<>>
    ELSE LET panel == msgRegistry[d.id]
             hs == panels[panel].message_handlers
         IN  [i \in 1..Len(hs) |->
                 [panel |-> panel, h |-> hs[i], arg |-> d.message, event |-> d]]

\* FileSystemWatcher._handle_create(data) (filewatcher.py 65-72): every
\* handler of _on_create_handlers is called with the payload's uri, which
\* the payloads here carry as their message
HandleCreateCalls(d) ==
    [h \in Recorders |->
        received[h] \o
        [i \in 1..Cardinality({j \in 1..Len(watcher.on_create_handlers) :
                                  watcher.on_create_handlers[j] = h}) |->
            d.message]]

\* What calling handler h with payload d does to the record of deliveries:
\* a recording handler appends its argument, the raising handler raises.
HandlerCall(h, d) ==
    IF h \in Recorders THEN [received EXCEPT ![h] = Append(@, d)]
    ELSE IF h = HandleCreate THEN HandleCreateCalls(d)
    ELSE received

\* Variant: fire() without the try/except of core.py 87-91, so that a
\* handler's exception ends fire() (and is caught at client.py 366)
RouterInvokeRaises(r) ==
    /\ rt[r].pc = "invoke"
    /\ rt[r].snap # <<>>
    /\ Head(rt[r].snap) # GlobalDisposeHandler
    /\ received' = HandlerCall(Head(rt[r].snap), rt[r].frame.data)
    /\ wvCalls' = IF Head(rt[r].snap) = GlobalHandler
                  THEN wvCalls \o GlobalHandlerCalls(rt[r].frame.data)
                  ELSE wvCalls
    /\ rt' = [rt EXCEPT ![r] = IF Head(rt[r].snap) = Raiser
                               THEN [@ EXCEPT !.snap = <<>>]
                               ELSE [@ EXCEPT !.snap = Tail(@)]]
    /\ UNCHANGED <<clientVars, th, hostVars, sideVars, wrote, dispCalls, hist>>

\* core.py 86-91: the next handler of the snapshot is called; an exception
\* it raises is printed and the loop goes on
RouterInvoke(r) ==
    /\ rt[r].pc = "invoke"
    /\ rt[r].snap # <<>>
    /\ Head(rt[r].snap) # GlobalDisposeHandler
    /\ received' = HandlerCall(Head(rt[r].snap), rt[r].frame.data)
    /\ wvCalls' = IF Head(rt[r].snap) = GlobalHandler
                  THEN wvCalls \o GlobalHandlerCalls(rt[r].frame.data)
                  ELSE wvCalls
    /\ rt' = [rt EXCEPT ![r].snap = Tail(@)]
    /\ UNCHANGED <<clientVars, th, hostVars, sideVars, wrote, dispCalls, hist>>

\* Variant: "event-dispatched" notified before fire() has called every
\* handler of its snapshot
RouterDispatchedEarly(r) ==
    /\ rt[r].pc = "invoke"
    /\ rt' = [rt EXCEPT ![r] = [OffRouter EXCEPT !.pc = "drain"]]
    /\ hist' = Notified([hist EXCEPT !.dispatched = @ + 1], "event-dispatched",
                        rt[r].frame.event, rt[r].frame.data)
    /\ UNCHANGED <<clientVars, th, hostVars, sideVars, wrote, delivered>>

\* line 367-370: fire() has returned, "event-dispatched" is notified
RouterDispatched(r) ==
    /\ rt[r].pc = "invoke"
    /\ rt[r].snap = <<>>
    /\ rt' = [rt EXCEPT ![r] = [OffRouter EXCEPT !.pc = "drain"]]
    /\ hist' = Notified([hist EXCEPT !.dispatched = @ + 1], "event-dispatched",
                        rt[r].frame.event, rt[r].frame.data)
    /\ UNCHANGED <<clientVars, th, hostVars, sideVars, wrote, delivered>>

RouterStep(r) ==
    \/ RouterStart(r) \/ RouterLoop(r) \/ RouterRecv(r) \/ RouterAbsorb(r)
    \/ RouterDrain(r) \/ RouterInvoke(r) \/ RouterDispatched(r)

(* ------------- the message registries across clients (webview.py) ----- *)
\* Variant: clients that compare equal, so that all of them share one key
KeyShared(c) == "c1"
\* the key of client c in the module's dicts: VSCodeClient defines neither
\* __eq__ nor __hash__, so every client object is a key of its own
Key(c) == c

\* _setup_message_subscription (422-465) of panel p: the panel is entered
\* under its client's key; when the key has no handler reference, a
\* _global_handler closing over the client is added to the client's emitter
\* and the unsubscribe callable is kept under the key
FanSetup(p) ==
    LET c == ClientOf(p)
        install == globalMessageHandlerRef[Key(c)] = "None"
    IN  [registry |-> [globalMessageRegistry EXCEPT ![Key(c)][FanId(p)] = p],
         ref |-> IF install
                 THEN [globalMessageHandlerRef EXCEPT ![Key(c)] = c]
                 ELSE globalMessageHandlerRef,
         listeners |-> IF install
                       THEN [fanListeners EXCEPT ![c] = Append(@, c)]
                       ELSE fanListeners]

\* _unregister_panel_from_global(c, id) (23-49): the id leaves the dict of
\* the client's key; a dict left empty goes, and the handler reference of
\* the key is popped and called, which takes the closure off the emitter
\* of the client that installed it
FanUnregister(c, id) ==
    LET ps == globalMessageRegistry[Key(c)]
        after == [ps EXCEPT ![id] = NoPanel]
        emptied == ps # NoFanPanels /\ after = NoFanPanels
        owner == globalMessageHandlerRef[Key(c)]
    IN  [registry |-> IF ps = NoFanPanels THEN globalMessageRegistry
                      ELSE [globalMessageRegistry EXCEPT ![Key(c)] = after],
         ref |-> IF emptied
                 THEN [globalMessageHandlerRef EXCEPT ![Key(c)] = "None"]
                 ELSE globalMessageHandlerRef,
         listeners |-> IF emptied /\ owner # "None"
                       THEN [fanListeners EXCEPT
                               ![owner] = RemoveFirst(@, owner)]
                       ELSE fanListeners]

\* on_did_receive_message(h) of panel p (303-324); a disposed panel raises
FanOnDidReceiveMessage(p, h) ==
    /\ hist.nops < MaxOps
    /\ ~fanPanels[p].disposed
    /\ ~InSeq(h, fanPanels[p].message_handlers)
    /\ LET setup == ~fanPanels[p].subscription_active
           s == FanSetup(p)
       IN  /\ fanPanels' = [fanPanels EXCEPT
                              ![p].message_handlers = Append(@, h),
                              ![p].subscription_active = TRUE]
           /\ globalMessageRegistry' =
                  IF setup THEN s.registry ELSE globalMessageRegistry
           /\ globalMessageHandlerRef' =
                  IF setup THEN s.ref ELSE globalMessageHandlerRef
           /\ fanListeners' = IF setup THEN s.listeners ELSE fanListeners
    /\ hist' = [hist EXCEPT !.nops = @ + 1]
    /\ UNCHANGED <<clientVars, th, rt, hostVars, wrote, delivered, ctorVars,
                   emVars, objVars, fanCalls>>

\* the unsubscribe function on_did_receive_message(h) returned (315-322)
FanUnsubscribe(p, h) ==
    /\ hist.nops < MaxOps
    /\ fanPanels[p].subscription_active
    /\ LET hs == fanPanels[p].message_handlers
           after == IF InSeq(h, hs) THEN RemoveFirst(hs, h) ELSE hs
           u == FanUnregister(ClientOf(p), FanId(p))
       IN  /\ fanPanels' = [fanPanels EXCEPT ![p].message_handlers = after]
           /\ globalMessageRegistry' =
                  IF after = <<>> THEN u.registry ELSE globalMessageRegistry
           /\ globalMessageHandlerRef' =
                  IF after = <<>> THEN u.ref ELSE globalMessageHandlerRef
           /\ fanListeners' = IF after = <<>> THEN u.listeners ELSE fanListeners
    /\ hist' = [hist EXCEPT !.nops = @ + 1]
    /\ UNCHANGED <<clientVars, th, rt, hostVars, wrote, delivered, ctorVars,
                   emVars, objVars, fanCalls>>

\* dispose() of panel p whose request the host answered (538-565): the
\* panel is disposed and leaves the message registry; a disposed panel
\* returns at once
FanDispose(p) ==
    /\ hist.nops < MaxOps
    /\ ~fanPanels[p].disposed
    /\ LET u == FanUnregister(ClientOf(p), FanId(p))
       IN  /\ fanPanels' = [fanPanels EXCEPT ![p].disposed = TRUE]
           /\ globalMessageRegistry' = u.registry
           /\ globalMessageHandlerRef' = u.ref
           /\ fanListeners' = u.listeners
    /\ hist' = [hist EXCEPT !.nops = @ + 1]
    /\ UNCHANGED <<clientVars, th, rt, hostVars, wrote, delivered, ctorVars,
                   emVars, objVars, fanCalls>>

\* _global_handler closing over client k (440-459), called by client c's
\* event loop with the event {id, message}: the handlers of the panel found
\* under k's key are called with the message
FanHandlerCalls(k, c, id, msg) ==
    LET panel == globalMessageRegistry[Key(k)][id]
    IN  IF panel = NoPanel THEN <<>>
        ELSE [i \in 1..Len(fanPanels[panel].message_handlers) |->
                [panel |-> panel, h |-> fanPanels[panel].message_handlers[i],
                 message |-> msg, on |-> c]]
RECURSIVE FanFire(_, _, _, _)
FanFire(ks, c, id, msg) ==
    IF ks = <<>> THEN <<>>
    ELSE FanHandlerCalls(Head(ks), c, id, msg) \o FanFire(Tail(ks), c, id, msg)

\* client c's event loop dispatches a webview.onDidReceiveMessage event
\* that its host pushed: fire() calls the closures of c's emitter
FanDispatch(c, id, msg) ==
    /\ Len(hist.pushed) < MaxEvents
    /\ fanListeners[c] # <<>>
    /\ fanCalls' = fanCalls \o FanFire(fanListeners[c], c, id, msg)
    /\ hist' = [hist EXCEPT
                  !.pushed = Append(@, EventFrame(WvMsg, Data(id, msg)))]
    /\ UNCHANGED <<clientVars, th, rt, hostVars, wrote, delivered, ctorVars,
                   emVars, objVars, globalMessageRegistry, globalMessageHandlerRef,
                   fanListeners, fanPanels>>

(* ------------------- FileSystemWatcher (filewatcher.py) ---------------- *)
\* FileSystemWatcher(client, "w1", glob, ignore_change_events=True,
\* ignore_delete_events=True) (39-63): the fields are set and
\* client.subscribe("watcher.w1.onCreate", self._handle_create) is called
WatcherNew(t) ==
    /\ CanStart(t)
    /\ CanCreate
    /\ ~watcher.created
    /\ watcher' = [NoWatcher EXCEPT !.created = TRUE]
    /\ th' = [th EXCEPT ![t] =
                EnterSubscribe(IdleThread, "subscribe", WatchCreate,
                               HandleCreate)]
    /\ hist' = Started
    /\ UNCHANGED <<clientVars, rt, hostVars, ctorVars, fanVars, emVars, wrote,
                   delivered, blocks, session>>

\* on_did_create(h) (97-125): the handler is appended; _disposed is not
\* looked at
WatcherOnDidCreate(t, h) ==
    /\ CanStart(t)
    /\ watcher.created
    /\ watcher' = [watcher EXCEPT !.on_create_handlers = Append(@, h)]
    /\ hist' = Started
    /\ UNCHANGED <<clientVars, th, rt, hostVars, ctorVars, fanVars, emVars,
                   wrote, delivered, blocks, session>>

\* dispose() (179-202): on a watcher not yet disposed, _disposed is set,
\* the handler lists are cleared and workspace.disposeFileSystemWatcher is
\* sent; nothing else is called
WatcherDispose(t) ==
    /\ CanStart(t)
    /\ watcher.created
    /\ hist' = Started
    /\ IF watcher.disposed
       THEN UNCHANGED <<watcher, th>>
       ELSE /\ watcher' = [watcher EXCEPT !.disposed = TRUE,
                                          !.on_create_handlers = <<>>]
            /\ th' = [th EXCEPT ![t] =
                        EnterRequest([IdleThread EXCEPT !.op = "watcher_dispose"],
                                     "workspace.disposeFileSystemWatcher",
                                     "call_ret")]
    /\ UNCHANGED <<clientVars, rt, hostVars, ctorVars, fanVars, emVars, wrote,
                   delivered, blocks, session>>

(* ------------- one EventEmitter and its lock (core.py 14-91) ----------- *)
\* a frame of a call into the emitter: fn is the method ("fire", "event",
\* "_dispose", "has_listeners") or "handler"; pc is "acquire" before
\* `with self._lock`, "locked" inside it, "loop" in fire's for loop, "hook"
\* where a hook is called, "body" in a handler, "ret" before the return
EmFrame(fn, pc, h) == [fn |-> fn, pc |-> pc, h |-> h, snap |-> <<>>, i |-> 1,
                       n |-> 0]
EmTop(t) == Head(emStack[t])
EmAt(t, fn, pc) ==
    /\ emStack[t] # <<>>
    /\ EmTop(t).fn = fn
    /\ EmTop(t).pc = pc
EmPush(t, fr) == [emStack EXCEPT ![t] = <<fr>> \o @]
EmReplace(t, fr) == [emStack EXCEPT ![t] = <<fr>> \o Tail(@)]
EmPop(t) == [emStack EXCEPT ![t] = Tail(@)]
\* how many top-level calls the threads have made
EmStarted == hist.nops

\* Variant: fire() keeps the lock while it calls the handlers
ReleasedAfterLoop(t, fn) == IF fn = "fire" THEN t ELSE "free"
\* the end of every `with self._lock:` block releases the lock
Released(t, fn) == "free"

\* Variant: fire() walks self._handlers itself instead of a copy
IteratedLive(fr, live) == live
\* the list fire's for loop walks: the copy made under the lock (84, 86)
Iterated(fr, live) == fr.snap

\* thread t calls emitter.fire(data) with the n-th payload (82)
EmFire(t) ==
    /\ emStack[t] = <<>>
    /\ Len(emHist.snaps) < MaxEvents
    /\ emStack' = EmPush(t, EmFrame("fire", "acquire", ""))
    /\ UNCHANGED <<emHandlers, emLock, emHist>>
    /\ UNCHANGED <<clientVars, th, rt, hostVars, wrote, delivered, wvVars,
                   hist, ctorVars, fanVars, objVars>>

\* thread t calls emitter.event(h) (32)
EmEvent(t, h) ==
    /\ emStack[t] = <<>>
    /\ EmStarted < MaxOps
    /\ emStack' = EmPush(t, EmFrame("event", "acquire", h))
    /\ hist' = [hist EXCEPT !.nops = @ + 1]
    /\ UNCHANGED <<emHandlers, emLock, emHist>>
    /\ UNCHANGED <<clientVars, th, rt, hostVars, wrote, delivered, wvVars,
                   ctorVars, fanVars, objVars>>

\* thread t calls the _dispose closure event(h) returned earlier (47)
EmDispose(t, h) ==
    /\ emStack[t] = <<>>
    /\ EmStarted < MaxOps
    /\ h \in emHist.closures
    /\ emStack' = EmPush(t, EmFrame("_dispose", "acquire", h))
    /\ hist' = [hist EXCEPT !.nops = @ + 1]
    /\ UNCHANGED <<emHandlers, emLock, emHist>>
    /\ UNCHANGED <<clientVars, th, rt, hostVars, wrote, delivered, wvVars,
                   ctorVars, fanVars, objVars>>

\* `with self._lock:` entered (35, 49, 79, 83): threading.Lock is not
\* reentrant, the thread waits until the lock is free, whoever holds it
EmAcquire(t) ==
    /\ emStack[t] # <<>>
    /\ EmTop(t).pc = "acquire"
    /\ emLock = "free"
    /\ emLock' = t
    /\ emStack' = EmReplace(t, [EmTop(t) EXCEPT !.pc = "locked"])
    /\ UNCHANGED <<emHandlers, emHist>>
    /\ UNCHANGED <<clientVars, th, rt, hostVars, wrote, delivered, wvVars,
                   hist, ctorVars, fanVars, objVars>>

\* the body of the `with` block and its end: event (36-38), _dispose
\* (50-53), has_listeners (80), fire (84)
EmLocked(t) ==
    /\ emStack[t] # <<>>
    /\ EmTop(t).pc = "locked"
    /\ LET fr == EmTop(t) IN
       /\ emLock' = Released(t, fr.fn)
       /\ \/ /\ fr.fn = "event"
             /\ emHandlers' = Append(emHandlers, fr.h)
             /\ emHist' = [emHist EXCEPT !.closures = @ \cup {fr.h}]
             /\ emStack' = EmReplace(t, [fr EXCEPT !.pc =
                               IF emHandlers = <<>> THEN "hook" ELSE "ret"])
          \/ /\ fr.fn = "_dispose"
             /\ emHandlers' = RemoveFirst(emHandlers, fr.h)
             /\ emStack' = EmReplace(t, [fr EXCEPT !.pc =
                               IF emHandlers' = <<>> THEN "hook" ELSE "ret"])
             /\ UNCHANGED emHist
          \/ /\ fr.fn = "has_listeners"
             /\ emStack' = EmReplace(t, [fr EXCEPT !.pc = "ret"])
             /\ UNCHANGED <<emHandlers, emHist>>
          \/ /\ fr.fn = "fire"
             /\ emHist' = [emHist EXCEPT !.snaps = Append(@, emHandlers)]
             /\ emStack' = EmReplace(t, [fr EXCEPT !.pc = "loop",
                                                   !.snap = emHandlers,
                                                   !.n = Len(emHist.snaps) + 1])
             /\ UNCHANGED emHandlers
    /\ UNCHANGED <<clientVars, th, rt, hostVars, wrote, delivered, wvVars,
                   hist, ctorVars, fanVars, objVars>>

\* self._on_first_add() (42) or self._on_no_listeners() (57) runs, after
\* the `with` block
EmHook(t) ==
    /\ emStack[t] # <<>>
    /\ EmTop(t).pc = "hook"
    /\ emStack' = EmReplace(t, [EmTop(t) EXCEPT !.pc = "ret"])
    /\ UNCHANGED <<emHandlers, emLock, emHist>>
    /\ UNCHANGED <<clientVars, th, rt, hostVars, wrote, delivered, wvVars,
                   hist, ctorVars, fanVars, objVars>>

\* the method returns to its caller
EmReturn(t) ==
    /\ emStack[t] # <<>>
    /\ EmTop(t).pc = "ret"
    /\ emStack' = EmPop(t)
    /\ UNCHANGED <<emHandlers, emLock, emHist>>
    /\ UNCHANGED <<clientVars, th, rt, hostVars, wrote, delivered, wvVars,
                   hist, ctorVars, fanVars, objVars>>

\* one turn of `for h in handlers: h(data)` (86-88), or the end of the loop
EmLoop(t) ==
    /\ EmAt(t, "fire", "loop")
    /\ LET fr == EmTop(t)
           hs == Iterated(fr, emHandlers)
       IN  IF fr.i > Len(hs)
           THEN /\ emStack' = EmPop(t)
                /\ emLock' = IF emLock = t THEN "free" ELSE emLock
                /\ UNCHANGED emHist
           ELSE /\ emStack' = [emStack EXCEPT ![t] =
                      <<[EmFrame("handler", "body", hs[fr.i]) EXCEPT
                           !.n = fr.n],
                        [fr EXCEPT !.i = @ + 1]>> \o Tail(@)]
                /\ emHist' = [emHist EXCEPT !.calls =
                      Append(@, [h |-> hs[fr.i], n |-> fr.n])]
                /\ UNCHANGED emLock
    /\ UNCHANGED emHandlers
    /\ UNCHANGED <<clientVars, th, rt, hostVars, wrote, delivered, wvVars,
                   hist, ctorVars, fanVars, objVars>>

\* the body of a handler fire() has called: what it calls on the emitter
\* before it returns
EmHandler(t) ==
    /\ EmAt(t, "handler", "body")
    /\ LET h == EmTop(t).h
           after == [EmTop(t) EXCEPT !.pc = "ret"]
           Calls(fr) == [emStack EXCEPT ![t] = <<fr, after>> \o Tail(@)]
       IN  \/ /\ h \in {"rec", "late"}
              /\ emStack' = EmReplace(t, after)
           \/ /\ h = "adder"
              /\ emStack' = Calls(EmFrame("event", "acquire", "late"))
           \/ /\ h = "remover"
              /\ \E x \in {"remover", "rec"} \cap emHist.closures :
                    emStack' = Calls(EmFrame("_dispose", "acquire", x))
           \/ /\ h = "asker"
              /\ emStack' = Calls(EmFrame("has_listeners", "acquire", ""))
    /\ UNCHANGED <<emHandlers, emLock, emHist>>
    /\ UNCHANGED <<clientVars, th, rt, hostVars, wrote, delivered, wvVars,
                   hist, ctorVars, fanVars, objVars>>

\* what a thread inside the emitter does next
EmStep(t) ==
    \/ EmAcquire(t) \/ EmLocked(t) \/ EmHook(t) \/ EmReturn(t)
    \/ EmLoop(t) \/ EmHandler(t)

(* ------------------ the extension host (test harness) ------------------ *)
\* tests/test_webview_dispatch.py 69-91: the host answers each request in
\* order; events.subscribe / events.unsubscribe change its subscriptions.
\* A real host may also answer a command with an error.
HostReplies(req) ==
    IF req.method \in {"events.subscribe", "events.unsubscribe"}
    THEN {Response(req.id, "True")}
    ELSE {Response(req.id, "X"), ErrorResponse(req.id, "boom")}
HostSubsAfter(req) ==
    IF req.method = "events.subscribe" THEN hostSubs \cup {req.event}
    ELSE IF req.method = "events.unsubscribe" THEN hostSubs \ {req.event}
    ELSE hostSubs

HostHandle ==
    /\ c2h # <<>>
    /\ ~peerClosed
    /\ c2h' = Tail(c2h)
    /\ hostSubs' = HostSubsAfter(Head(c2h))
    /\ \E f \in HostReplies(Head(c2h)) : h2c' = h2c \o Encode(f)
    /\ UNCHANGED <<clientVars, th, rt, peerClosed, segmented, sideVars, wrote, delivered, hist>>

\* the host answers an events.unsubscribe request with an error and keeps
\* its subscription
HostRefuse ==
    /\ c2h # <<>>
    /\ ~peerClosed
    /\ Head(c2h).method = "events.unsubscribe"
    /\ c2h' = Tail(c2h)
    /\ h2c' = h2c \o Encode(ErrorResponse(Head(c2h).id, "boom"))
    /\ UNCHANGED <<clientVars, th, rt, peerClosed, segmented, hostSubs,
                   sideVars, wrote, delivered, hist>>

\* the handlers registered for event name e
Listening(e) ==
    IF emitters[e] = NoEmitter THEN {}
    ELSE {handlersOf[emitters[e]][i] : i \in 1..Len(handlersOf[emitters[e]])}

\* line 76-85: an event of a subscribed name is pushed
HostPush(e, d) ==
    /\ ~peerClosed
    /\ e \in hostSubs
    /\ Len(hist.pushed) < MaxEvents
    /\ h2c' = h2c \o Encode(EventFrame(e, d))
    /\ hist' = [hist EXCEPT !.pushed = Append(@, EventFrame(e, d)),
                             !.heard = Append(@, Listening(e))]
    /\ UNCHANGED <<clientVars, th, rt, c2h, peerClosed, segmented, sideVars, hostSubs, wrote,
                   delivered>>

\* a line that is not the text of one JSON object reaches the client
HostPushMalformed ==
    /\ ~peerClosed
    /\ sock = "open"
    /\ hist.garbled < 1
    /\ h2c' = h2c \o <<Body(Response(0, "")), Body(Response(0, "")), NL>>
    /\ hist' = [hist EXCEPT !.garbled = @ + 1]
    /\ UNCHANGED <<clientVars, th, rt, c2h, peerClosed, segmented, sideVars, hostSubs, wrote,
                   delivered>>

\* line 97: the host closes the connection
HostClose ==
    /\ ~peerClosed
    /\ sock = "open"
    /\ peerClosed' = TRUE
    /\ UNCHANGED <<clientVars, th, rt, c2h, h2c, segmented, sideVars, hostSubs, wrote, delivered,
                   hist>>

(* --------------------------- specifications ---------------------------- *)
\* the client after connect() succeeded, on a transport that segments or not
ConnectedState ==
    /\ sock = "open"
    /\ request_id = 0
    /\ buffer = <<>>
    /\ emitters = [e \in Events |-> NoEmitter]
    /\ handlersOf = [i \in EmitterIds |-> <<>>]
    /\ hookEvent = [i \in EmitterIds |-> ""]
    /\ nEmitters = 0
    /\ running = FALSE
    /\ eventThread = NoThread
    /\ th = [t \in Callers |-> IdleThread]
    /\ rt = [r \in Routers |-> OffRouter]
    /\ closures = {}
    /\ c2h = <<>>
    /\ h2c = <<>>
    /\ peerClosed = FALSE
    /\ segmented \in BOOLEAN
    /\ hostSubs = {}
    /\ wrote = <<>>
    /\ received = [h \in Recorders |-> <<>>]
    /\ panels = [p \in Panels |-> NewPanel]
    /\ msgRegistry = NoPanels
    /\ msgHandlerRef = NoClosure
    /\ panelClosures = {}
    /\ wvCalls = <<>>
    /\ dispRegistry = NoPanels
    /\ dispHandlerRef = NoClosure
    /\ dispCalls = <<>>
    /\ CtorDone
    /\ FanInit
    /\ EmInit
InitConnected == ConnectedState /\ hist = [NoHist EXCEPT !.connected = TRUE]

\* the same on a transport that hands over every write whole
InitWhole == InitConnected /\ ~segmented

RequestStep(t) == SendRequestStep(t) \/ CallReturn(t)
\* the router's steps while no subscribed event is pushed
RouterIdleStep(r) ==
    \/ RouterStart(r) \/ RouterLoop(r) \/ RouterRecv(r) \/ RouterAbsorb(r)
    \/ RouterDrain(r)
RegisterStep(t) ==
    \/ SubscribeStartThread(t) \/ SubscribeLookup(t) \/ SubscribeEvent(t)
    \/ SubscribeAck(t)
RemoveStep(t) ==
    \/ EmitterRemove(t) \/ HookAck(t)
    \/ UnsubscribeHasListeners(t) \/ UnsubscribeDelete(t)

\* The request channel: two threads connect, disconnect and call.
Next ==
    \/ \E t \in Callers :
         \/ Connect(t) \/ Disconnect(t) \/ Call(t)
         \/ RequestStep(t)
    \/ HostHandle
    \/ HostClose
Spec == Init /\ [][Next]_vars

\* Subscription management, one thread: handlers of one event name are
\* registered and removed in sequence.
NextSub ==
    \/ \E h \in Recorders :
         \/ Subscribe("t1", EvName, h)
         \/ AddEventListener("t1", EvName, h)
         \/ Unsubscribe("t1", EvName, h)
    \/ \E c \in closures : Dispose("t1", c)
    \/ SendRequestStep("t1") \/ RegisterStep("t1") \/ RemoveStep("t1")
    \/ \E r \in Routers : RouterIdleStep(r)
    \/ HostHandle
SpecSub == InitConnected /\ [][NextSub]_vars

\* Subscription management, two threads on one event name and one handler.
NextConc ==
    \/ \E t \in Callers :
         \/ Subscribe(t, EvName, "h1")
         \/ Unsubscribe(t, EvName, "h1")
         \/ SendRequestStep(t) \/ RegisterStep(t) \/ RemoveStep(t)
         \/ SubscribeRaise(t)
    \/ \E r \in Routers : RouterIdleStep(r)
    \/ HostHandle
SpecConc == InitWhole /\ [][NextConc]_vars

\* Event delivery: one thread subscribes and calls while the host pushes.
NextEvents ==
    \/ \E h \in {"h1", Raiser} : Subscribe("t1", EvName, h)
    \/ Call("t1")
    \/ RequestStep("t1") \/ RegisterStep("t1")
    \/ \E r \in Routers : RouterStep(r)
    \/ HostHandle
    \/ \E d \in Payloads : HostPush(EvName, Data("", d))
SpecEvents == InitWhole /\ [][NextEvents]_vars

\* The webview fan-out: one thread registers and removes message handlers
\* of two panels while the host pushes webview messages.
NextWebview ==
    \/ \E p \in Panels : OnDidReceiveMessage("t1", p, "h1")
    \/ \E c \in panelClosures : PanelUnsubscribe("t1", c)
    \/ SendRequestStep("t1") \/ RegisterStep("t1") \/ HookAck("t1")
    \/ SetupStoreRef("t1")
    \/ \E r \in Routers : RouterStep(r)
    \/ HostHandle
    \/ \E i \in PanelIds, d \in Payloads : HostPush(WvMsg, Data(i, d))
SpecWebview == InitWhole /\ [][NextWebview]_vars

\* Events in flight while the last handler goes: one thread registers a
\* handler, removes it through its closure or through unsubscribe, and the
\* host pushes.
NextFire ==
    \/ AddEventListener("t1", EvName, "h1")
    \/ Unsubscribe("t1", EvName, "h1")
    \/ \E c \in closures : Dispose("t1", c)
    \/ SendRequestStep("t1") \/ RegisterStep("t1") \/ RemoveStep("t1")
    \/ \E r \in Routers : RouterStep(r)
    \/ HostHandle
    \/ \E d \in Payloads : HostPush(EvName, Data("", d))
SpecFire == InitWhole /\ [][NextFire]_vars
\* one panel with message and dispose handlers, disposed by the caller and
\* by the host's event
RouterDisposeStep(r) == RouterDisposeEnter(r) \/ RouterDisposeCall(r)
PanelDisposeStep(t) ==
    \/ PanelDisposeSent(t) \/ PanelDisposeCall(t) \/ PanelDisposeUnregMsg(t)
    \/ PanelDisposeUnregDisp(t) \/ PanelDisposeDone(t)
NextDispose ==
    \/ OnDidReceiveMessage("t1", "P1", "h1")
    \/ OnDidDispose("t1", "P1", "h1")
    \/ PanelDispose("t1", "P1")
    \/ PanelDisposeStep("t1")
    \/ SendRequestStep("t1") \/ RegisterStep("t1") \/ HookAck("t1")
    \/ SetupStoreRef("t1") \/ SetupDisposeStoreRef("t1")
    \/ \E r \in Routers : RouterStep(r) \/ RouterDisposeStep(r)
    \/ HostHandle
    \/ HostPush(WvDispose, Data(IdOf("P1"), ""))
    \/ HostPush(WvMsg, Data(IdOf("P1"), "d1"))
SpecDispose == InitWhole /\ [][NextDispose]_vars

\* Construction: for each argument, value of the variable and platform, a
\* thread constructs the client and then connects, calls and disconnects.
InitPath ==
    /\ Fresh
    /\ th = [t \in Callers |->
               IF t = "t1" THEN [IdleThread EXCEPT !.pc = "new"] ELSE IdleThread]
    /\ arg \in Args
    /\ environ \in EnvValues
    /\ os_name \in OsNames
    /\ pipe_path = "unset"
    /\ ~segmented
NextPath ==
    \/ NewClient("t1")
    \/ Connect("t1") \/ Disconnect("t1") \/ Call("t1")
    \/ RequestStep("t1")
    \/ HostHandle
SpecPath == InitPath /\ [][NextPath]_vars

\* Two clients in one process: panels of both register and remove message
\* handlers and are disposed, and each client's loop dispatches messages.
NextFan ==
    \/ \E p \in FanPanels :
          \/ FanOnDidReceiveMessage(p, "h1")
          \/ FanUnsubscribe(p, "h1")
          \/ FanDispose(p)
    \/ \E c \in Clients, i \in FanIds : FanDispatch(c, i, "d1")
SpecFan == InitWhole /\ [][NextFan]_vars

\* Hooks that fail: one thread registers and removes handlers of one event
\* name while another disconnects and the host answers or closes.
NextHooks ==
    \/ \E h \in Recorders :
         \/ Subscribe("t1", EvName, h)
         \/ Unsubscribe("t1", EvName, h)
    \/ SendRequestStep("t1") \/ RegisterStep("t1") \/ RemoveStep("t1")
    \/ Disconnect("t2")
    \/ \E r \in Routers : RouterIdleStep(r) \/ RouterExit(r)
    \/ HostHandle
    \/ HostClose
SpecHooks == InitWhole /\ [][NextHooks]_vars

\* The life of the event loop: one thread subscribes, another
\* disconnects and connects again, the host pushes events and a malformed
\* line and closes.
RouterLifeStep(r) == RouterStep(r) \/ RouterExit(r)
NextLife ==
    \/ Subscribe("t1", EvName, "h1")
    \/ SendRequestStep("t1") \/ RegisterStep("t1")
    \/ Disconnect("t2") \/ Reconnect("t2")
    \/ \E r \in Routers : RouterLifeStep(r)
    \/ HostHandle
    \/ HostPush(EvName, Data("", "d1"))
    \/ HostPushMalformed
    \/ HostClose
SpecLife == InitWhole /\ [][NextLife]_vars
\* the same with threads that are scheduled and a host that answers: a
\* thread that can take a step takes one
SpecLifeFair ==
    /\ SpecLife
    /\ \A r \in Routers : WF_vars(RouterLifeStep(r))
    /\ WF_vars(SendRequestStep("t1") \/ RegisterStep("t1"))
    /\ WF_vars(HostHandle)

\* One emitter used by two threads: "f" fires, "o" registers handlers and
\* calls their closures; the handlers themselves call back into the emitter.
InitEmitter == InitWhole
NextEmitter ==
    \/ EmFire("f")
    \/ \E h \in EmHandlers \ {"late"} : EmEvent("o", h) \/ EmDispose("o", h)
    \/ \E t \in EmThreads : EmStep(t)
SpecEmitter == InitEmitter /\ [][NextEmitter]_vars
\* every thread that can take a step eventually takes one
SpecEmitterFair == SpecEmitter /\ \A t \in EmThreads : WF_vars(EmStep(t))


\* One caller making requests while the router reads the same socket into
\* the same buffer, on a transport that may split the stream anywhere; the
\* history keeps the bytes in the order recv returned them and the lines
\* in the order they were taken.
InitFraming ==
    /\ ConnectedState
    /\ segmented
    /\ hist = [NoHist EXCEPT !.connected = TRUE, !.tracing = TRUE]
NextFraming ==
    \/ Subscribe("t1", EvName, "h1")
    \/ SendRequestStep("t1") \/ RegisterStep("t1")
    \/ RouterStep(1)
    \/ HostHandle
    \/ HostPush(EvName, Data("", "d1"))
SpecFraming == InitFraming /\ [][NextFraming]_vars

\* One panel whose caller registers handlers, updates it and disposes it,
\* with a host that answers the panel's requests with a result or an error;
\* no event is pushed.
NextPanel ==
    \/ OnDidReceiveMessage("t1", "P1", "h1")
    \/ OnDidDispose("t1", "P1", "h1")
    \/ \E m \in PanelMethods : PanelSend("t1", "P1", m)
    \/ PanelDispose("t1", "P1")
    \/ PanelDisposeStep("t1")
    \/ RequestStep("t1") \/ RegisterStep("t1") \/ HookAck("t1")
    \/ SetupStoreRef("t1") \/ SetupDisposeStoreRef("t1")
    \/ \E r \in Routers : RouterIdleStep(r)
    \/ HostHandle
SpecPanel == InitWhole /\ [][NextPanel]_vars

\* One caller that registers handlers for an event and drops them all
\* with unsubscribe(event), a router, and a host that pushes events and
\* may refuse to unsubscribe.
NextAll ==
    \/ \E h \in Recorders : Subscribe("t1", EvName, h)
    \/ UnsubscribeAll("t1", EvName)
    \/ UnsubscribeAllDelete("t1")
    \/ SendRequestStep("t1") \/ RegisterStep("t1")
    \/ RouterStep(1)
    \/ HostHandle \/ HostRefuse
    \/ HostPush(EvName, Data("", "d1"))
SpecAll == InitWhole /\ [][NextAll]_vars

\* One caller that enters and leaves `with client.subscription(...)`
\* blocks for handler h1 and, inside and outside of them, registers and
\* removes handlers with subscribe / unsubscribe; a router, and a host that
\* pushes events and may refuse to unsubscribe.
NextScope ==
    \/ SubscriptionEnter("t1", EvName, "h1")
    \/ SubscriptionExit("t1")
    \/ \E h \in Recorders : Subscribe("t1", EvName, h)
    \/ \E h \in Recorders : Unsubscribe("t1", EvName, h)
    \/ SendRequestStep("t1") \/ RegisterStep("t1") \/ RemoveStep("t1")
    \/ RouterStep(1)
    \/ HostHandle \/ HostRefuse
    \/ HostPush(EvName, Data("", "d1"))
SpecScope == InitWhole /\ [][NextScope]_vars

\* The session listeners of one client: listeners are added, by
\* add_session_listener or, for l1, by the context manager, and removed,
\* while the router and a caller notify them.
NextSession ==
    \/ \E l \in Listeners : AddSessionListener(l, FALSE)
    \/ AddSessionListener("l1", TRUE)
    \/ \E l \in Listeners : RemoveSessionListener(l)
    \/ \E i \in 1..MaxOps : SessionRemover(i)
    \/ \E n \in Notifiers : NotifySessionListeners(n) \/ SessionListenerCall(n)
SpecSession == InitWhole /\ [][NextSession]_vars

\* One watcher for creations: constructed, given handlers and disposed by
\* one caller, with the router running and a host that pushes the
\* watcher's event as long as it holds the subscription.
NextWatcher ==
    \/ WatcherNew("t1")
    \/ \E h \in Recorders : WatcherOnDidCreate("t1", h)
    \/ WatcherDispose("t1")
    \/ RequestStep("t1") \/ RegisterStep("t1")
    \/ RouterStep(1)
    \/ HostHandle
    \/ HostPush(WatchCreate, Data("", "d1"))
SpecWatcher == InitWhole /\ [][NextWatcher]_vars

(* ------------------------------ properties ----------------------------- *)
AllIdle == \A t \in Callers : th[t].pc = "idle"
\* the number of requests written with method m
Sent(m) == Cardinality({i \in 1..Len(wrote) : wrote[i].method = m})
Handled(e) == emitters[e] # NoEmitter /\ handlersOf[emitters[e]] # <<>>

\* C1: in a sequential run, between operations, as many events.subscribe
\* requests have been written as the listener count went from 0 to 1, and as
\* many events.unsubscribe requests as it went from 1 to 0.  (Stated for
\* runs where no unsubscribe closure is called a second time.)
C1_ControlPerTransition ==
    (AllIdle /\ ~hist.overlap /\ ~hist.recalled) =>
        /\ Sent("events.subscribe") = hist.up
        /\ Sent("events.unsubscribe") = hist.down

\* C2: when no subscribe or unsubscribe call is in progress and the host has
\* read every request, the host is subscribed to the event name exactly if
\* its emitter has a handler; and no two events.subscribe requests are
\* written without an events.unsubscribe between them.
C2_HostMatchesLocal ==
    /\ (AllIdle /\ c2h = <<>>) => ((EvName \in hostSubs) <=> Handled(EvName))
    /\ \A i, j \in 1..Len(wrote) :
         (i < j /\ wrote[i].method = "events.subscribe"
                /\ wrote[j].method = "events.subscribe")
         => \E m \in (i + 1)..(j - 1) : wrote[m].method = "events.unsubscribe"

\* the payloads of the events pushed while handler h was registered
RECURSIVE Expected(_, _)
Expected(h, n) ==
    IF n = 0 THEN <<>>
    ELSE Expected(h, n - 1) \o
         (IF h \in hist.heard[n] THEN <<hist.pushed[n].data>> ELSE <<>>)
\* nothing is in flight and no thread is at work
Settled ==
    /\ AllIdle
    /\ c2h = <<>> /\ h2c = <<>> /\ buffer = <<>>
    /\ \A r \in Routers : rt[r].pc \in {"off", "recv"}

\* C3: once everything pushed has been read, a handler that is registered
\* has been called exactly once, in order, with the payload of each event
\* pushed since it was registered.
C3_DeliveredOnce ==
    (Settled /\ "h1" \in Listening(EvName)) =>
        received["h1"] = Expected("h1", Len(hist.pushed))

\* C4: every call of a panel's message handler is for an event that carries
\* that panel's id, and its argument is the event's message field.
C4_RoutedById ==
    \A i \in 1..Len(wvCalls) :
        /\ IdOf(wvCalls[i].panel) = wvCalls[i].event.id
        /\ wvCalls[i].arg = wvCalls[i].event.message
\* both panels' handlers have been called, each for its own id
C4_Witness ==
    /\ \E i \in 1..Len(wvCalls) : wvCalls[i].panel = "P1"
    /\ \E i \in 1..Len(wvCalls) : wvCalls[i].panel = "P2"

\* C5: when the first complete line of what a _send_request call has
\* received is the response to its own id carrying a result, the call
\* returns that result, and what followed the line's newline is the buffer.
C5_RoundTrip ==
    [][\A t \in Callers :
         (th[t].pc = "req_absorb" /\ th'[t] # th[t]) =>
            LET b == buffer \o th[t].chunk IN
            (/\ HasNL(b)
             /\ Decodes(LineOf(b))
             /\ Decode(LineOf(b)).type = "none"
             /\ ~Decode(LineOf(b)).hasError
             /\ Decode(LineOf(b)).id = th[t].rid)
            => /\ th'[t].pc = Head(th[t].k)
               /\ th'[t].out = Outcome("ok", Decode(LineOf(b)).result)
               /\ buffer' = SubSeq(b, FirstNL(b, 1) + 1, Len(b))]_vars
\* a call is returning its own response's result while another frame
\* stays in the buffer
C5_Witness ==
    \E t \in Callers :
        /\ th[t].pc = "call_ret"
        /\ th[t].out = Outcome("ok", "X")
        /\ Decode(th[t].line).id = th[t].rid
        /\ buffer # <<>>

\* C6: the requests written carry pairwise different ids, and the ids are
\* allocated in strictly increasing order.
C6_IdsUniqueIncreasing ==
    /\ \A i, j \in 1..Len(wrote) : i # j => wrote[i].id # wrote[j].id
    /\ \A i, j \in 1..Len(hist.allocated) :
          i < j => hist.allocated[i] < hist.allocated[j]
\* two calls overlapped and the later id was written first
C6_Witness ==
    /\ Len(wrote) >= 2
    /\ wrote[1].id > wrote[2].id

\* C7: a _send_request call that finds self.sock None ends at once with
\* ConnectionError; no id is allocated, nothing is written and the buffer is
\* left as it was.
C7_NotConnected ==
    [][\A t \in Callers :
         (th[t].pc = "req_check" /\ th'[t] # th[t] /\ sock = "none") =>
            /\ th'[t].pc = Head(th[t].k)
            /\ th'[t].out.kind = "ConnectionError"
            /\ th'[t].rid = 0
            /\ request_id' = request_id
            /\ wrote' = wrote /\ c2h' = c2h
            /\ buffer' = buffer]_vars
\* a call made after disconnect() is returning ConnectionError
C7_Witness ==
    \E t \in Callers :
        /\ th[t].pc = "call_ret"
        /\ th[t].out = Outcome("ConnectionError", "Not connected")
        /\ sock = "none"
        /\ wrote # <<>>

\* C8: a call whose response line carries "error" ends with RuntimeError
\* holding the host's message, after writing exactly one request frame; a
\* call that ends with ConnectionError took no line at all.
C8_HostError ==
    \A t \in Callers :
        th[t].pc = "call_ret" =>
            /\ (Decodes(th[t].line) /\ Decode(th[t].line).hasError) =>
                  /\ th[t].out = Outcome("RuntimeError", Decode(th[t].line).error)
                  /\ Cardinality({i \in 1..Len(wrote) : wrote[i].id = th[t].rid}) = 1
            /\ th[t].out.kind = "ConnectionError" => th[t].line = <<>>
\* a call is raising the host's error
C8_Witness ==
    \E t \in Callers :
        /\ th[t].pc = "call_ret"
        /\ th[t].out = Outcome("RuntimeError", "boom")

\* C9: while an event is dispatched, every recording handler of the
\* snapshot that fire() has passed was called with the event's payload,
\* whether or not a handler before it raised, and the router thread never
\* stops.
C9_RaisingHandler ==
    \A r \in Routers :
        /\ rt[r].pc \notin {"exit", "stopped"}
        /\ rt[r].pc = "invoke" =>
             \A i \in 1..(Len(rt[r].fired) - Len(rt[r].snap)) :
                 rt[r].fired[i] \in Recorders =>
                     /\ received[rt[r].fired[i]] # <<>>
                     /\ received[rt[r].fired[i]][Len(received[rt[r].fired[i]])]
                            = rt[r].frame.data
\* the raising handler was registered first, and the handler after it has
\* been called for two events
C9_Witness ==
    /\ emitters[EvName] # NoEmitter
    /\ handlersOf[emitters[EvName]] = <<Raiser, "h1">>
    /\ Len(received["h1"]) = 2

\* C10: a call of an unsubscribe closure that was called before removes no
\* handler and does not run the on_no_listeners hook.
C10_LaterCallsNoOp ==
    /\ ~hist.lateRemoved
    /\ \A t \in Callers : ~th[t].late

\* C11: emitter.remove(h) for a handler h that is not in the emitter's
\* list never runs the on_no_listeners hook (and so sends nothing).
C11_AbsentRemoveNoOp == ~hist.absentHook

\* h is a subsequence of s: the elements of h occur in s in h's order
RECURSIVE IsSubSeq(_, _)
IsSubSeq(h, s) ==
    IF h = <<>> THEN TRUE
    ELSE IF s = <<>> THEN FALSE
    ELSE IF Head(h) = Head(s) THEN IsSubSeq(Tail(h), Tail(s))
    ELSE IsSubSeq(h, Tail(s))

\* C13: the payloads a handler has been called with are, in this order,
\* among the payloads of the events pushed while it was registered.
C13_WireOrder ==
    \A h \in Recorders : IsSubSeq(received[h], Expected(h, Len(hist.pushed)))

\* C20: at most one router thread has been started.
C20_OneRouter == Cardinality({r \in Routers : rt[r].pc # "off"}) <= 1

\* C12: the router's step on an event line whose name has no emitter calls
\* no handler, notifies no "event-dispatched", and leaves the table and the
\* router as they were; firing an emitter whose list is empty calls no
\* handler and the router goes on with the next line.
C12_NoListeners ==
    [][/\ (/\ HasNL(buffer) /\ buffer' = RestOf(buffer) /\ th' = th
           /\ Decodes(LineOf(buffer))
           /\ Decode(LineOf(buffer)).type = "event"
           /\ emitters[Decode(LineOf(buffer)).event] = NoEmitter)
          => /\ rt' = rt
             /\ received' = received /\ wvCalls' = wvCalls
             /\ emitters' = emitters /\ handlersOf' = handlersOf
             /\ hist'.dispatched = hist.dispatched
       /\ \A r \in Routers :
            (rt[r].pc = "invoke" /\ rt[r].fired = <<>> /\ rt'[r] # rt[r])
            => /\ rt'[r].pc = "drain"
               /\ received' = received /\ wvCalls' = wvCalls
               /\ emitters' = emitters /\ handlersOf' = handlersOf]_vars
\* an event was read for a name without emitter and another was fired on an
\* emitter without handlers, and the router is still at work
C12_Witness ==
    /\ hist.ignored > 0
    /\ hist.dispatched > 0
    /\ received["h1"] = <<>>
    /\ \E r \in Routers : rt[r].pc \in {"loop", "recv", "absorb", "drain"}


\* C15: once nothing is in flight, a disposed panel is in neither the message
\* nor the dispose registry, and the unsubscribe handle of a kind whose
\* registry is empty has been forgotten.
C15_DisposedLeavesRegistries ==
    Settled =>
        /\ \A p \in Panels :
              panels[p].disposed =>
                  /\ msgRegistry[IdOf(p)] # p
                  /\ dispRegistry[IdOf(p)] # p
        /\ msgRegistry = NoPanels => msgHandlerRef = NoClosure
        /\ dispRegistry = NoPanels => dispHandlerRef = NoClosure

\* C16: once dispose() of a panel has returned, an event pushed later and
\* carrying the panel's id makes the router call none of the panel's
\* message or dispose handlers.
C16_NoCallsAfterDispose ==
    [][\A p \in hist.after :
          /\ \A i \in (Len(wvCalls) + 1)..Len(wvCalls') :
                wvCalls'[i].panel # p
          /\ \A i \in (Len(dispCalls) + 1)..Len(dispCalls') :
                ~(dispCalls'[i].panel = p /\ dispCalls'[i].by = "router")]_vars

\* the number of calls the dispose handlers stored on panel p have received
\* from dispose() and from the dispose dispatcher
StoredCalls(p) ==
    Cardinality({i \in 1..Len(dispCalls) :
                    /\ dispCalls[i].panel = p
                    /\ dispCalls[i].in # "on_did_dispose"})

\* C17: the dispose handlers stored on a panel are called once each: never
\* more calls than handlers stored, and once a disposed panel is at rest,
\* as many, with the panel's list empty.
C17_DisposeHandlersOnce ==
    /\ \A p \in Panels : StoredCalls(p) <= hist.stored[p]
    /\ Settled =>
          \A p \in Panels :
              panels[p].disposed =>
                  /\ panels[p].dispose_handlers = <<>>
                  /\ StoredCalls(p) = hist.stored[p]

\* the number of calls on_did_dispose itself has made
LateCalls ==
    Cardinality({i \in 1..Len(dispCalls) : dispCalls[i].in = "on_did_dispose"})

\* C18: on_did_dispose on a disposed panel calls the handler once, on the
\* calling thread and before it returns, stores nothing, leaves the dispose
\* registry and its subscription alone, creates no unsubscribe closure and
\* sends no request; a handler passed so is called by nothing else, so
\* there are always as many such calls as there were such registrations.
C18_LateHandlerCalledAtOnce ==
    /\ [](LateCalls = hist.lateCalls)
    /\ [][hist'.lateCalls # hist.lateCalls =>
             /\ \E t \in Callers, p \in Panels, h \in Recorders :
                    /\ th[t].pc = "idle" /\ panels[p].disposed
                    /\ dispCalls' = Append(dispCalls,
                                           DisposeCall(p, h, t, "on_did_dispose"))
             /\ th' = th
             /\ panels' = panels
             /\ dispRegistry' = dispRegistry /\ dispHandlerRef' = dispHandlerRef
             /\ msgRegistry' = msgRegistry /\ msgHandlerRef' = msgHandlerRef
             /\ handlersOf' = handlersOf /\ emitters' = emitters
             /\ closures' = closures /\ panelClosures' = panelClosures
             /\ wrote' = wrote /\ c2h' = c2h]_vars
C18_Witness ==
    /\ hist.lateCalls > 0
    /\ \E i \in 1..Len(dispCalls) :
          /\ dispCalls[i].in = "on_did_dispose"
          /\ dispCalls[i].by = "t1"
    /\ panels["P1"].disposed /\ panels["P1"].dispose_handlers = <<>>
    /\ AllIdle

\* C19: a call of dispose() on a panel whose dispose() has been called
\* before (and has returned or raised) returns at once: it sends no
\* request, calls no handler and changes nothing of the panel, the
\* registries or the client.
C19_SecondDisposeNoOp ==
    [][hist'.again # hist.again =>
         /\ th' = th
         /\ wrote' = wrote /\ c2h' = c2h
         /\ panels' = panels
         /\ msgRegistry' = msgRegistry /\ dispRegistry' = dispRegistry
         /\ received' = received /\ wvCalls' = wvCalls
         /\ dispCalls' = dispCalls]_vars

\* the number of requests written with method m for event name e
SentFor(m, e) ==
    Cardinality({i \in 1..Len(wrote) :
                    wrote[i].method = m /\ wrote[i].event = e})
\* the number of times handler h is registered for event name e
Registrations(e, h) ==
    IF emitters[e] = NoEmitter THEN 0
    ELSE Cardinality({i \in 1..Len(handlersOf[emitters[e]]) :
                         handlersOf[emitters[e]][i] = h})

C26_WireInIdOrder ==
    \A i, j \in 1..Len(wrote) : i < j => wrote[i].id < wrote[j].id

\* C23: when the registration of a first handler returns and its
\* events.subscribe request came back with a value, the line taken was the
\* response to that request and the host has subscribed the event name.
C23_ReturnsAfterAck ==
    [][\A t \in Callers :
         (th[t].pc = "sub_ack" /\ th'[t].pc # "sub_ack"
             /\ th[t].out.kind = "ok") =>
            /\ Decodes(th[t].line)
            /\ Decode(th[t].line).type = "none"
            /\ Decode(th[t].line).id = th[t].rid
            /\ th[t].e \in hostSubs]_vars

C28_RouterDropsResponses ==
    [][/\ \A r \in Routers :
            (/\ rt[r].pc = "drain"
             /\ buffer' # buffer
             /\ \A q \in Routers \ {r} : rt'[q] = rt[q]
             /\ th' = th
             /\ HasNL(buffer) /\ Decodes(LineOf(buffer))
             /\ Decode(LineOf(buffer)).type # "event") =>
                 /\ rt'[r] = rt[r]
                 /\ buffer' = RestOf(buffer)
                 /\ received' = received /\ wvCalls' = wvCalls
                 /\ hist'.dispatched = hist.dispatched
       /\ \A t \in Callers :
            /\ (th[t].pc = "req_absorb" /\ th'[t].line # <<>>
                    /\ th[t].rid \in hist.dropped) =>
                  ~(/\ Decodes(th'[t].line)
                    /\ Decode(th'[t].line).type = "none"
                    /\ Decode(th'[t].line).id = th[t].rid)
            /\ (th[t].pc = "req_recv" /\ th'[t].pc # "req_recv"
                    /\ sock = "open") =>
                  (h2c # <<>> \/ peerClosed)]_vars
C28_Witness ==
    /\ th["t1"].pc = "req_recv"
    /\ th["t1"].rid \in hist.dropped
    /\ sock = "open" /\ h2c = <<>> /\ buffer = <<>> /\ c2h = <<>>
    /\ \E r \in Routers : rt[r].pc = "recv"

\* the notifications of one state, in the order the listeners saw them
Notes(state) == SelectSeq(hist.notes, LAMBDA n : n.state = state)
\* how many elements of `seq` carry the event name `e` and the data `d`
Times(seq, e, d) ==
    Cardinality({i \in 1..Len(seq) : seq[i].event = e /\ seq[i].data = d})
\* no (event, data) pair is in `ns` more often than it is in `fs`
NotesOfFrames(ns, fs) ==
    \A i \in 1..Len(ns) :
        Times(ns, ns[i].event, ns[i].data) <= Times(fs, ns[i].event, ns[i].data)

\* C29: an event frame whose name has an emitter is notified as
\* ("event-dispatched", {event, data}) exactly once: the router thread that
\* took the frame notifies it when it leaves the frame, only after every
\* handler of the snapshot was called, with the event name and the data the
\* handlers were called with, and it takes no further line from the buffer
\* before; nothing else notifies "event-dispatched", and the notifications
\* are those of pushed frames, each at most once.
C29_DispatchedNotifiedOnce ==
    /\ [](NotesOfFrames(Notes("event-dispatched"), hist.pushed))
    /\ [][/\ \A r \in Routers :
              /\ (rt[r].pc = "invoke" /\ rt'[r].pc # "invoke") =>
                   /\ rt[r].snap = <<>>
                   /\ rt'[r].pc = "drain"
                   /\ hist'.notes =
                        Append(hist.notes,
                               Note("event-dispatched", rt[r].frame.event,
                                    rt[r].frame.data))
              /\ (rt[r].pc = "invoke" /\ rt'[r].pc = "invoke") =>
                   /\ rt'[r].frame = rt[r].frame
                   /\ hist'.notes = hist.notes
                   /\ (rt'[r] # rt[r]) =>
                        /\ buffer' = buffer
                        /\ rt'[r].snap = Tail(rt[r].snap)
                        /\ \A h \in Recorders :
                             received'[h] =
                               IF h = Head(rt[r].snap)
                               THEN Append(received[h], rt[r].frame.data)
                               ELSE received[h]
          /\ Notes("event-dispatched")' # Notes("event-dispatched") =>
               \E r \in Routers : rt[r].pc = "invoke" /\ rt'[r].pc = "drain"
         ]_vars
C29_Witness ==
    /\ Notes("event-dispatched") = <<Note("event-dispatched", EvName,
                                          Data("", "d1"))>>
    /\ received["h1"] = <<Data("", "d1")>>
    /\ \E r \in Routers :
         /\ rt[r].pc = "drain"
         /\ rt[r].fired = <<>>
    /\ \E i \in EmitterIds : handlersOf[i] = <<Raiser, "h1">>

\* how many of the first n notifications are of `state`
CountTo(state, n) ==
    Cardinality({i \in 1..n : hist.notes[i].state = state})

\* C30: the life-cycle notifications are well ordered: no more
\* "event-loop-started" than event loops were started, each
\* "event-loop-stopped" has an "event-loop-started" of its own before it,
\* and each "event-dispatched" lies between the "event-loop-started" and
\* the "event-loop-stopped" of a loop.
C30_LifecycleOrdered ==
    /\ CountTo("event-loop-started", Len(hist.notes)) <=
           Cardinality({r \in Routers : rt[r].pc # "off"})
    /\ \A n \in 1..Len(hist.notes) :
         /\ hist.notes[n].state = "event-loop-stopped" =>
              CountTo("event-loop-stopped", n) <= CountTo("event-loop-started", n)
         /\ hist.notes[n].state = "event-dispatched" =>
              CountTo("event-loop-stopped", n) < CountTo("event-loop-started", n)

\* C21: a line that does not parse as JSON does not end the event loop:
\* the router thread that takes it from the buffer drops it and goes on
\* with the next line; the same line taken by _send_request ends that call
\* with the decoder's error.
C21_MalformedLineSkipped ==
    [][/\ \A r \in Routers :
            (/\ rt[r].pc = "drain"
             /\ buffer' # buffer
             /\ \A q \in Routers \ {r} : rt'[q] = rt[q]
             /\ th' = th
             /\ HasNL(buffer)
             /\ LineOf(buffer) # <<>>
             /\ ~Decodes(LineOf(buffer))) =>
                 /\ rt'[r] = rt[r]
                 /\ buffer' = RestOf(buffer)
       /\ \A t \in Callers :
            (/\ th[t].pc = "req_absorb"
             /\ th'[t] # th[t]
             /\ HasNL(buffer \o th[t].chunk)
             /\ ~Decodes(LineOf(buffer \o th[t].chunk))) =>
                 /\ th'[t].pc = Head(th[t].k)
                 /\ th'[t].out = Outcome("ValueError", "JSONDecodeError")
      ]_vars

\* C22: disconnect() leaves the client without socket, and every reader is
\* unblocked by it: from a state where the socket is gone, an event loop
\* that is running eventually stops, and a _send_request that waits in recv
\* eventually leaves recv.
C22_DisconnectStopsReaders ==
    /\ [][(Len(hist'.notes) > Len(hist.notes) /\ rt' = rt) => sock' = "none"]_vars
    /\ \A r \in Routers :
         (sock = "none" /\ rt[r].pc \notin {"off", "stopped"})
             ~> (rt[r].pc = "stopped")
    /\ \A t \in Callers :
         (sock = "none" /\ th[t].pc = "req_recv") ~> (th[t].pc # "req_recv")

\* C24: the path the client connects to is the constructor's argument when
\* one is given, else the value of VSCODE_SOCKPUPPET_PIPE when it is set,
\* else the platform's default, for every argument, value and platform;
\* nothing changes it after construction.
C24_PathResolutionOrder ==
    /\ [](pipe_path # "unset" =>
            pipe_path =
              IF arg # "None" THEN arg
              ELSE IF environ # "None" THEN environ
              ELSE IF os_name = "nt" THEN "\\\\.\\pipe\\vscode-sockpuppet"
              ELSE "tempdir/vscode-sockpuppet.sock")
    /\ [][pipe_path # "unset" => pipe_path' = pipe_path]_vars
C24_Witness ==
    /\ arg = "/arg"
    /\ environ = "/env"
    /\ pipe_path = "/arg"
    /\ sock = "open"

\* C25: the registries of different clients are apart.  A handler of a
\* panel is called only for an event that the panel's own client
\* dispatched, also when a panel of another client has the same id; a
\* step that changes no panel of a client leaves that client's registry
\* entry, its handler reference and the dispatcher on its emitter as they
\* were; and a client has its dispatcher exactly while its entry holds a
\* panel.
C25_ClientsIsolated ==
    /\ [](/\ \A n \in 1..Len(fanCalls) :
               ClientOf(fanCalls[n].panel) = fanCalls[n].on
          /\ \A c \in Clients :
               /\ \A i \in FanIds :
                    globalMessageRegistry[c][i] # NoPanel =>
                        ClientOf(globalMessageRegistry[c][i]) = c
               /\ fanListeners[c] =
                    IF globalMessageRegistry[c] = NoFanPanels
                    THEN <<>> ELSE <<c>>)
    /\ [][\A c \in Clients :
            (\A p \in FanPanels :
                ClientOf(p) = c => fanPanels'[p] = fanPanels[p]) =>
                  /\ globalMessageRegistry'[c] = globalMessageRegistry[c]
                  /\ globalMessageHandlerRef'[c] = globalMessageHandlerRef[c]
                  /\ fanListeners'[c] = fanListeners[c]]_vars
C25_Witness ==
    /\ fanPanels["A1"].disposed
    /\ globalMessageRegistry["c1"] = NoFanPanels
    /\ fanListeners["c1"] = <<>>
    /\ globalMessageRegistry["c2"]["alpha"] = "A2"
    /\ fanListeners["c2"] = <<"c2">>
    /\ fanCalls = <<[panel |-> "A1", h |-> "h1", message |-> "d1", on |-> "c1"]>>

\* C31: the hooks of an emitter run after the change of the handler list
\* and their errors stay inside: when on_first_add starts the new handler
\* is in the list, when on_no_listeners starts the list is empty; while the
\* hook's request runs and when it ends, with a result or with an error,
\* the handler list and the table are what they were, the acknowledgement
\* ("subscription-ack" / "unsubscription-ack") is notified and the caller
\* goes on as after a hook that succeeded.
C31_HooksBestEffort ==
    [][\A t \in Callers :
         /\ (th[t].pc = "sub_event" /\ th'[t].pc = "req_check") =>
               InSeq(th[t].h, handlersOf'[th'[t].em])
         /\ (th[t].pc = "unsub_remove" /\ th'[t].pc = "req_check") =>
               handlersOf'[th[t].em] = <<>>
         /\ (th[t].pc \in {"req_check", "req_id", "req_write", "req_recv",
                           "req_absorb"} /\ th'[t] # th[t]) =>
               /\ handlersOf' = handlersOf
               /\ emitters' = emitters
         /\ (th[t].pc = "sub_ack" /\ th'[t] # th[t]) =>
               /\ handlersOf' = handlersOf
               /\ emitters' = emitters
               /\ hist'.acks = Append(hist.acks, "subscription-ack")
               /\ th'[t].pc = "idle"
         /\ (th[t].pc = "hook_ack" /\ th'[t] # th[t]) =>
               /\ handlersOf' = handlersOf
               /\ emitters' = emitters
               /\ hist'.acks = Append(hist.acks, "unsubscription-ack")
               /\ th'[t].pc = Head(th[t].k)
      ]_vars
C31_Witness ==
    /\ hist.swallowed = 2
    /\ hist.acks = <<"subscription-ack", "unsubscription-ack">>
    /\ wrote = <<>>
    /\ \A t \in Callers : th[t].pc = "idle"
    /\ emitters[EvName] = NoEmitter

\* the handlers called for the n-th payload, in call order
EmCallsOf(n) ==
    LET cs == SelectSeq(emHist.calls, LAMBDA c : c.n = n)
    IN  [i \in 1..Len(cs) |-> cs[i].h]
\* the n-th fire() has not returned yet
EmFiring(n) ==
    \E t \in EmThreads : \E i \in 1..Len(emStack[t]) :
        emStack[t][i].fn = "fire" /\ emStack[t][i].n = n
EmPrefix(a, b) == Len(a) <= Len(b) /\ a = SubSeq(b, 1, Len(a))

\* C32: fire() calls the handlers that were registered when it took its
\* copy of the list, in registration order, whatever is registered or
\* removed while it runs (by an earlier handler or another thread): the
\* calls made for a payload are always a prefix of that copy and all of it
\* once fire() has returned, and the copy each fire() takes is the list as
\* it is at that moment, so that changes count from the next fire() on
C32_FireUsesSnapshot ==
    /\ [](\A n \in 1..Len(emHist.snaps) :
            /\ EmPrefix(EmCallsOf(n), emHist.snaps[n])
            /\ ~EmFiring(n) => EmCallsOf(n) = emHist.snaps[n])
    /\ [][Len(emHist.snaps') > Len(emHist.snaps) =>
            emHist.snaps' = Append(emHist.snaps, emHandlers)]_vars
\* two payloads fired: during the first, "remover" removed "rec" and
\* "adder" registered "late"; "rec" was still called for the first and not
\* for the second, "late" only for the second
C32_Witness ==
    /\ \A t \in EmThreads : emStack[t] = <<>>
    /\ Len(emHist.snaps) = 2
    /\ EmCallsOf(1) = <<"remover", "adder", "rec">>
    /\ EmCallsOf(2) = <<"remover", "adder", "late">>

\* C33: a handler that calls back into the emitter while fire() runs it
\* (event(), an unsubscribe closure, has_listeners()) never waits for a
\* lock its own thread holds: the lock is held only inside a `with` block,
\* never while a handler or a hook runs, and every call into the emitter
\* returns
C33_NoReentrancyDeadlock ==
    /\ [](\A t \in EmThreads :
            emLock = t => emStack[t] # <<>> /\ EmTop(t).pc = "locked")
    /\ \A t \in EmThreads : (emStack[t] # <<>>) ~> (emStack[t] = <<>>)
\* inside one fire(), "adder" has registered a handler and "asker" has
\* called has_listeners(), both returned, and "remover" is inside its own
\* unsubscribe closure, holding the lock
C33_Witness ==
    /\ Len(emStack["f"]) = 3
    /\ EmTop("f").fn = "_dispose" /\ EmTop("f").pc = "locked"
    /\ EmTop("f").h = "remover"
    /\ emLock = "f"
    /\ emStack["f"][3].fn = "fire"
    /\ EmCallsOf(emStack["f"][3].n) = <<"adder", "asker", "remover">>
    /\ InSeq("late", emHandlers)

\* every chunk recv returned has been appended to the buffer
AllAppended ==
    /\ \A t \in Callers : th[t].chunk = <<>>
    /\ \A r \in Routers : rt[r].chunk = <<>>

\* C34: framing loses and reorders nothing: whenever every chunk read has
\* been appended, the lines taken off the buffer by _send_request and by
\* the router loop, in the order they were taken and each with its newline,
\* followed by what the buffer still holds, are the bytes received so far
C34_FramingKeepsStream ==
    AllAppended => hist.taken \o buffer = hist.recvd

\* every line either reader has taken is the text of one frame the host
\* wrote
LinesAreFrames ==
    \A i \in 1..Len(hist.taken) : hist.taken[i].nl <=> i % 2 = 0

\* C35: a panel that is not disposed is in the message registry of its
\* client exactly when it has a message handler, whatever registrations
\* and unsubscribe calls were made on it
C35_RegisteredIffHandlers ==
    \A p \in FanPanels :
        ~fanPanels[p].disposed =>
            (globalMessageRegistry[Key(ClientOf(p))][FanId(p)] = p
                <=> fanPanels[p].message_handlers # <<>>)

\* what a panel holds and where it is registered
PanelState(p) ==
    <<panels[p], msgRegistry, msgHandlerRef, dispRegistry, dispHandlerRef,
      emitters, handlersOf>>

\* C36: while dispose() waits for its request and when the request fails,
\* the panel is as it was before the call (not disposed, its handler lists
\* and the registries unchanged, no dispose handler called), and the next
\* dispose() sends the request again; a disposed panel stays disposed; an
\* operation started on a disposed panel (update_html, update_title,
\* post_message, on_did_receive_message) starts no request and stores
\* nothing
C36_FailedDisposeChangesNothing ==
    /\ [][\A t \in Callers, p \in Panels :
            (/\ th[t].op = "panel_dispose" /\ th[t].p = p
             /\ th[t].pc \in {"req_check", "req_id", "req_write", "req_recv",
                              "req_absorb", "pd_sent"}
             /\ ~(th[t].pc = "pd_sent" /\ th[t].out.kind = "ok"))
            => (/\ PanelState(p)' = PanelState(p)
                /\ dispCalls' = dispCalls)]_vars
    /\ [][\A t \in Callers :
            (/\ th[t].pc = "idle" /\ th'[t].pc # "idle"
             /\ th'[t].op = "panel_dispose")
            => (/\ ~panels[th'[t].p].disposed
                /\ th'[t].method = "window.disposeWebviewPanel"
                /\ th'[t].pc = "req_check")]_vars
    /\ [][\A p \in Panels : panels[p].disposed => panels'[p].disposed]_vars
    /\ [][(panels["P1"].disposed /\ hist'.nops = hist.nops + 1)
            => (/\ th' = th
                /\ wrote' = wrote
                /\ panels'["P1"].message_handlers
                      = panels["P1"].message_handlers
                /\ msgRegistry' = msgRegistry)]_vars
\* dispose() failed once and the panel stayed as it was; the second
\* dispose() sent the request again and returned; then a method called on
\* the disposed panel raised and sent nothing
C36_Witness ==
    /\ "P1" \in hist.raised /\ "P1" \in hist.returned
    /\ panels["P1"].disposed
    /\ hist.refused = 1
    /\ Sent("window.disposeWebviewPanel") = 2
    /\ Len(wrote) = 2
    /\ \A t \in Callers : th[t].pc = "idle"

\* the requests written with id n
WrittenWith(n) == {i \in 1..Len(wrote) : wrote[i].id = n}

WatcherDisposed ==
    /\ watcher.disposed
    /\ \A t \in Callers : th[t].pc = "idle"

\* C38: once dispose() of the watcher is over, exactly one
\* workspace.disposeFileSystemWatcher request has been written, the client
\* holds no handler for the watcher's event and the host no subscription
\* for it, and no handler that was registered through on_did_create before
\* is called again
C38_WatcherTornDown ==
    /\ [](WatcherDisposed =>
            /\ Sent("workspace.disposeFileSystemWatcher") = 1
            /\ ~Handled(WatchCreate)
            /\ WatchCreate \notin hostSubs)
    /\ [][(WatcherDisposed /\ watcher.on_create_handlers = <<>>)
            => received' = received]_vars


\* the step with which thread t leaves its subscription block: the last
\* step of the unsubscribe of the `finally` clause
LeavesBlock(t) ==
    \/ th[t].op = "subscription_exit" /\ th'[t].pc = "idle"
    \/ blocks[t].state = "in" /\ blocks'[t].state = "left" /\ th'[t].pc = "idle"
\* the requests written since thread t began to leave its block
WrittenLeaving(t) == {i \in 1..Len(wrote) : i > blocks[t].sent}

CalledBy(id) ==
    LET F[k \in 0..Len(session.calls)] ==
          IF k = 0 THEN <<>>
          ELSE IF session.calls[k].id = id THEN Append(F[k - 1], session.calls[k].l)
          ELSE F[k - 1]
    IN  F[Len(session.calls)]
\* notification id is under way
Notifying(id) == \E n \in Notifiers : session.notifying[n].id = id
\* every notification calls the listeners of the list it copied, in their
\* order, the raising one included, and skips none; a listener that was not
\* in the list at that moment is not called
SessionDelivery ==
    \A id \in 1..Len(session.snaps) :
        /\ \E k \in 0..Len(session.snaps[id]) :
             CalledBy(id) = SubSeq(session.snaps[id], 1, k)
        /\ ~Notifying(id) => CalledBy(id) = session.snaps[id]
SessionDeliveryWitness ==
    /\ session.snaps = << <<"l1", "lx", "l2">>, <<"lx", "l2">> >>
    /\ CalledBy(1) = <<"l1", "lx", "l2">>
    /\ CalledBy(2) = <<"lx", "l2">>
    /\ \A n \in Notifiers : session.notifying[n] = NotNotifying

\* C40: removing a session listener is idempotent: a remover that has run
\* removes nothing when it is called again
C40_RemoverIdempotent ==
    [][\A i \in 1..MaxOps :
         (/\ session'.removes = session.removes + 1
          /\ session'.by = i
          /\ i \in session.used)
         => session'.listeners = session.listeners]_vars
\* a listener that no remaining registration keeps is not called by a
\* notification that starts afterwards: a notification calls only
\* listeners of the list at its start
RemovedNotNotified ==
    [][\A l \in Listeners :
         (Len(session'.snaps) = Len(session.snaps) + 1 /\ ~InSeq(l, session.listeners))
         => ~InSeq(l, session'.snaps[Len(session'.snaps)])]_vars

=============================================================================
